---- MODULE Spec2Model ----
(***************************************************************************)
(* A model of bw-claude's network enforcement path: the wildcard host      *)
(* matcher, the policy engine built on it, and the filter daemon that      *)
(* reads one CONNECT request per Unix-socket connection, consults the      *)
(* engine, dials the destination and splices bytes.                        *)
(*                                                                         *)
(* Strings are sequences of one-character strings, so that wildcard        *)
(* matching, trimming and whitespace splitting are computed the way the    *)
(* code computes them.                                                     *)
(***************************************************************************)
EXTENDS Integers, Sequences, FiniteSets, TLC

VARIABLES
    pe,          \* the PolicyEngine in use (policy.rs:13-18)
    q_host,      \* host of the allow() calls made so far on pe
    answers,     \* IpArgs -> "unasked" | "allow" | "deny": result of allow(q_host, ip)
    cfg,         \* ProxyServerConfig: which of engine, recorder, output path are Some
    daemon,      \* ProxyServer::start: position of the accept loop, first_connection, saves
    path_exists, \* whether socket_path exists in the host's file system
    mounted,     \* whether the sandbox has bind-mounted the socket at /proxy.sock
    conns,       \* the connection of each task slot: client, handle_client, destination
    rec_hosts,   \* LearningRecorder.hosts
    denied_hosts,\* LearningRecorder.denied_hosts
    file,        \* the learning output file
    last_done,   \* how the handler that returned last ended
    network,     \* NetworkConfig.groups handed to ConfigValidator::validate
    validation,  \* how far validate has come, and the result of each of its steps
    fs_configs,  \* Config.filesystem.configs handed to resolve_filesystem_config
    resolved,    \* the last resolve_filesystem_config call: its name and its result
    base_cfg,    \* the lower-priority Config of a merge (the built-in one of a load)
    override_cfg,\* the higher-priority Config of a merge
    merged,      \* result of ConfigLoader::merge_configs(base_cfg, override_cfg)
    loaded,      \* result of ConfigLoader::load_with_priority
    args,        \* CommonArgs of a launcher run
    config,      \* the Config the launcher has loaded
    setup,       \* result of setup_policy and the filter daemon tasks it spawned
    argv,        \* the bubblewrap command SandboxBuilder built
    relay,       \* bw-relay: its HTTP accept loop and the client connections accepted
    clock,       \* SystemTime::now() in nanoseconds
    tmp_dirs,    \* the /tmp/bw-<tool>-<id> directories that exist on the host
    runs,        \* the launcher runs: their Sandbox and its tmp_export_dir
    expand,      \* a PolicyEngine construction: policy, groups and the engine built
    recorder,    \* bwrap-core's LearningRecorder, the tasks sharing it and its output file
    waiter       \* create_proxy_task: the position of its wait for the daemon's socket

pvars == <<q_host, answers>>
\* what no step of the daemon changes
cvars == <<network, validation, fs_configs, resolved, base_cfg, override_cfg, merged, loaded>>
xvars == <<args, config, setup, argv, relay, clock, tmp_dirs, runs, expand, recorder, waiter>>
nvars == <<pe, pvars, denied_hosts, cvars, xvars>>
dvars == <<cfg, daemon, path_exists, mounted, conns, rec_hosts, denied_hosts, file,
          last_done>>
vars == <<pe, q_host, answers, cfg, daemon, path_exists, mounted, conns, rec_hosts,
          denied_hosts, file, last_done, cvars, xvars>>

\* No configuration is being validated, resolved, merged or loaded.
ConfigIdle ==
    /\ network = <<>>
    /\ validation = [step |-> "none"]
    /\ fs_configs = <<>>
    /\ resolved = [name |-> "none"]
    /\ base_cfg = "none"
    /\ override_cfg = "none"
    /\ merged = [done |-> FALSE]
    /\ loaded = [done |-> FALSE]

\* No launcher is setting up a policy or building a sandbox.
LaunchIdle ==
    /\ args = [given |-> FALSE]
    /\ config = [given |-> FALSE]
    /\ setup = [done |-> FALSE]
    /\ argv = [done |-> FALSE]

\* No relay runs.
RelayIdle == relay = [st |-> "none"]

\* No launcher run has an export directory.
TmpIdle ==
    /\ clock = 0
    /\ tmp_dirs = {}
    /\ runs = <<>>

\* No engine is being built from a policy.
ExpandIdle == expand = [done |-> FALSE]

\* No shared learning recorder exists.
LearnIdle == recorder = [st |-> "none"]

\* No launcher waits for a daemon's socket.
TaskIdle == waiter = [st |-> "none"]

SessionIdle == LearnIdle /\ TaskIdle

SandboxIdle == LaunchIdle /\ RelayIdle /\ TmpIdle /\ ExpandIdle /\ SessionIdle

(***************************************************************************)
(* Bounds of the model.                                                    *)
(***************************************************************************)
MaxPatterns == 2      \* patterns per matcher
AddrBits == 2         \* width of a model IP address

(***************************************************************************)
(* Option<T>: None is the empty sequence, Some(x) the one-element one.     *)
(***************************************************************************)
None == <<>>
Some(x) == <<x>>
IsSome(o) == o # <<>>
Unwrap(o) == o[1]

Max2(a, b) == IF a >= b THEN a ELSE b

RECURSIVE Pow2(_)
Pow2(n) == IF n = 0 THEN 1 ELSE 2 * Pow2(n - 1)

(***************************************************************************)
(* wildmatch::WildMatch::matches as HostMatcher uses it: `*` matches zero  *)
(* or more characters (dots included), `?` exactly one, anything else      *)
(* itself.                                                                 *)
(***************************************************************************)
RECURSIVE WildMatches(_, _)
WildMatches(p, s) ==
    IF p = <<>> THEN s = <<>>
    ELSE IF Head(p) = "*"
         THEN WildMatches(Tail(p), s) \/ (s # <<>> /\ WildMatches(p, Tail(s)))
         ELSE /\ s # <<>>
              /\ (Head(p) = "?" \/ Head(p) = Head(s))
              /\ WildMatches(Tail(p), Tail(s))

\* host.split('.').count(): one more than the number of dots.
RECURSIVE CountDots(_)
CountDots(s) ==
    IF s = <<>> THEN 0
    ELSE (IF Head(s) = "." THEN 1 ELSE 0) + CountDots(Tail(s))

calculate_hostname_specificity(host) == CountDots(host) + 1

(***************************************************************************)
(* HostMatcher: patterns, ipv4_ranges, ipv6_ranges (all Vec).              *)
(***************************************************************************)
HostMatcher(pats, v4, v6) == [patterns |-> pats, ipv4_ranges |-> v4, ipv6_ranges |-> v6]

NewMatcher == HostMatcher(<<>>, <<>>, <<>>)

matches_host(m, host) ==
    \E i \in 1..Len(m.patterns) : WildMatches(m.patterns[i], host)

\* IpNet::contains: the address lies in the net when their top `len` bits agree.
NetContains(net, addr) ==
    (addr \div Pow2(AddrBits - net.len)) = (net.addr \div Pow2(AddrBits - net.len))

matches_ip(m, ip) ==
    IF ip.v = 4
    THEN \E i \in 1..Len(m.ipv4_ranges) : NetContains(m.ipv4_ranges[i], ip.addr)
    ELSE \E i \in 1..Len(m.ipv6_ranges) : NetContains(m.ipv6_ranges[i], ip.addr)

\* A matcher that reports the literal labels of the matching pattern.
RECURSIVE SpecificityLoopByPattern(_, _, _, _)
SpecificityLoopByPattern(pats, i, host, max_specificity) ==
    IF i > Len(pats) THEN max_specificity
    ELSE SpecificityLoopByPattern(pats, i + 1, host,
            IF WildMatches(pats[i], host)
            THEN Some(Max2(IF IsSome(max_specificity) THEN Unwrap(max_specificity) ELSE 0,
                           Cardinality({j \in 1..Len(pats[i]) : pats[i][j] \notin {"*", "."}})))
            ELSE max_specificity)

\* The loop of matches_with_specificity over patterns[i..], carrying max_specificity.
RECURSIVE SpecificityLoop(_, _, _, _)
SpecificityLoop(pats, i, host, max_specificity) ==
    IF i > Len(pats) THEN max_specificity
    ELSE SpecificityLoop(pats, i + 1, host,
            IF WildMatches(pats[i], host)
            THEN Some(Max2(IF IsSome(max_specificity) THEN Unwrap(max_specificity) ELSE 0,
                           calculate_hostname_specificity(host)))
            ELSE max_specificity)

matches_with_specificity(m, host) == SpecificityLoop(m.patterns, 1, host, None)

(***************************************************************************)
(* PolicyEngine                                                            *)
(***************************************************************************)
PolicyModes == {"Allow", "Deny"}

Engine(am, dm, mode, all) ==
    [allow_matcher |-> am, deny_matcher |-> dm, mode |-> mode, allow_all |-> all]

\* `ip.map(|a| matcher.matches_ip(a)).unwrap_or(false)`
IpMatch(m, ip) == IF IsSome(ip) THEN matches_ip(m, Unwrap(ip)) ELSE FALSE

\* A slip in the tie rule: >= instead of >.
AllowTieAllows(e, host, ip) ==
    LET a == matches_with_specificity(e.allow_matcher, host)
        d == matches_with_specificity(e.deny_matcher, host)
    IN  IF e.allow_all THEN TRUE
        ELSE IF IsSome(a) /\ IsSome(d) THEN Unwrap(a) >= Unwrap(d)
        ELSE IF IsSome(a) THEN TRUE
        ELSE IF IsSome(d) THEN FALSE
        ELSE IF IpMatch(e.allow_matcher, ip) /\ IpMatch(e.deny_matcher, ip) THEN FALSE
        ELSE IF IpMatch(e.allow_matcher, ip) THEN TRUE
        ELSE IF IpMatch(e.deny_matcher, ip) THEN FALSE
        ELSE e.mode = "Deny"

\* PolicyEngine::allow
Allow(e, host, ip) ==
    LET allow_hostname_spec == matches_with_specificity(e.allow_matcher, host)
        deny_hostname_spec == matches_with_specificity(e.deny_matcher, host)
        allow_ip_match == IpMatch(e.allow_matcher, ip)
        deny_ip_match == IpMatch(e.deny_matcher, ip)
    IN  IF e.allow_all THEN TRUE
        ELSE IF IsSome(allow_hostname_spec) /\ IsSome(deny_hostname_spec)
             THEN Unwrap(allow_hostname_spec) > Unwrap(deny_hostname_spec)
        ELSE IF IsSome(allow_hostname_spec) THEN TRUE
        ELSE IF IsSome(deny_hostname_spec) THEN FALSE
        ELSE IF allow_ip_match /\ deny_ip_match THEN FALSE
        ELSE IF allow_ip_match THEN TRUE
        ELSE IF deny_ip_match THEN FALSE
        ELSE e.mode = "Deny"

(***************************************************************************)
(* Inputs of the policy checks.                                            *)
(***************************************************************************)
HostAC == <<"a", ".", "c">>
HostBC == <<"b", ".", "c">>
HostABC == <<"a", ".", "b", ".", "c">>
HostD == <<"d">>
Hosts == {HostAC, HostBC, HostABC, HostD}

PatStarC == <<"*", ".", "c">>
PatStarBC == <<"*", ".", "b", ".", "c">>
PatStar == <<"*">>
Patterns == {HostAC, PatStarC, PatStarBC, PatStar}

PatternLists == UNION {[1..n -> Patterns] : n \in 0..MaxPatterns}

Net4 == [addr |-> 0, len |-> 1]
Net6 == [addr |-> 0, len |-> 1]
Ip4In == [v |-> 4, addr |-> 1]
Ip6In == [v |-> 6, addr |-> 1]
IpArgs == {None, Some(Ip4In), Some(Ip6In)}

\* (allow ipv4, allow ipv6, deny ipv4, deny ipv6) range lists offered to the engine.
IpConfigs ==
    { <<<<>>, <<>>, <<>>, <<>>>>,
      <<<<Net4>>, <<>>, <<>>, <<>>>>,
      <<<<>>, <<>>, <<Net4>>, <<>>>>,
      <<<<Net4>>, <<Net6>>, <<Net4>>, <<>>>> }

\* The engines from_policy returns: an allow_all policy gets empty matchers.
Engines ==
    { Engine(HostMatcher(ap, ic[1], ic[2]), HostMatcher(dp, ic[3], ic[4]), mode, FALSE) :
        ap \in PatternLists, dp \in PatternLists, ic \in IpConfigs, mode \in PolicyModes }
    \cup { Engine(NewMatcher, NewMatcher, mode, TRUE) : mode \in PolicyModes }

Verdict(b) == IF b THEN "allow" ELSE "deny"

(***************************************************************************)
(* Specification of the engine alone: an engine is built, then allow() is  *)
(* called on it for a host with the different ip arguments.                *)
(***************************************************************************)
PolicyInit ==
    /\ pe \in Engines
    /\ q_host \in Hosts
    /\ answers = [ip \in IpArgs |-> "unasked"]
    /\ cfg = [policy_engine |-> TRUE, learning_recorder |-> FALSE, learning_output |-> FALSE]
    /\ daemon = [st |-> "init", first_connection |-> TRUE, accepts |-> 0, saves |-> 0]
    /\ path_exists = FALSE
    /\ mounted = FALSE
    /\ conns = <<>>
    /\ rec_hosts = {}
    /\ denied_hosts = {}
    /\ file = [exists |-> FALSE, groups |-> <<>>]
    /\ last_done = "none"
    /\ ConfigIdle
    /\ SandboxIdle

CallAllow(ip) ==
    /\ answers[ip] = "unasked"
    /\ answers' = [answers EXCEPT ![ip] = Verdict(Allow(pe, q_host, ip))]
    /\ UNCHANGED <<pe, q_host, dvars, cvars, xvars>>

NextHost(h) ==
    /\ h # q_host
    /\ q_host' = h
    /\ answers' = [ip \in IpArgs |-> "unasked"]
    /\ UNCHANGED <<pe, dvars, cvars, xvars>>

PolicyNext ==
    \/ \E ip \in IpArgs : CallAllow(ip)
    \/ \E h \in Hosts : NextHost(h)

PolicySpec == PolicyInit /\ [][PolicyNext]_vars

(***************************************************************************)
(* Claims about the policy engine (checked under PolicySpec).              *)
(***************************************************************************)
AllowSpec == matches_with_specificity(pe.allow_matcher, q_host)
DenySpec == matches_with_specificity(pe.deny_matcher, q_host)
HasWildcard(p) == \E i \in 1..Len(p) : p[i] \in {"*", "?"}
ListHas(l, x) == \E i \in 1..Len(l) : l[i] = x

\* C2: when the allow matcher matches the host with specificity a and the deny
\* matcher matches it with specificity d, allow(host, None) is true exactly when
\* a > d, so a tie is denied.
C2_LongestMatch ==
    (answers[None] # "unasked" /\ IsSome(AllowSpec) /\ IsSome(DenySpec))
        => (answers[None] = "allow" <=> Unwrap(AllowSpec) > Unwrap(DenySpec))

C2_Witness ==
    /\ answers[None] = "deny"
    /\ IsSome(AllowSpec) /\ IsSome(DenySpec)
    /\ Unwrap(AllowSpec) = Unwrap(DenySpec)
    /\ Len(pe.allow_matcher.patterns) = 2

\* C3: for a host matched by neither the allow nor the deny patterns,
\* allow(host, None) is true exactly when the configured default is allow.
C3_DefaultFallback ==
    (answers[None] # "unasked" /\ ~IsSome(AllowSpec) /\ ~IsSome(DenySpec))
        => (answers[None] = "allow" <=> pe.mode = "Allow")

\* C4: more-specific-wins in both directions: a literal allow pattern for the host
\* beats the wildcard deny patterns that also match it (allow), and a literal deny
\* pattern for the host beats the wildcard allow patterns that match it (deny).
C4_MoreSpecificWins ==
    /\ ( /\ answers[None] # "unasked"
         /\ ListHas(pe.allow_matcher.patterns, q_host)
         /\ IsSome(DenySpec)
         /\ \A i \in 1..Len(pe.deny_matcher.patterns) :
                HasWildcard(pe.deny_matcher.patterns[i]) )
       => answers[None] = "allow"
    /\ ( /\ answers[None] # "unasked"
         /\ ListHas(pe.deny_matcher.patterns, q_host)
         /\ IsSome(AllowSpec)
         /\ \A i \in 1..Len(pe.allow_matcher.patterns) :
                HasWildcard(pe.allow_matcher.patterns[i]) )
       => answers[None] = "deny"

\* C5: the ip argument has no effect: any two calls of allow on the same engine and
\* host return the same decision whatever ip each was given.
C5_IpIgnored ==
    \A ip1 \in IpArgs, ip2 \in IpArgs :
        (answers[ip1] # "unasked" /\ answers[ip2] # "unasked")
            => answers[ip1] = answers[ip2]

(***************************************************************************)
(* The filter daemon (proxy/server.rs).                                    *)
(*                                                                         *)
(* A request is a sequence of symbols: the word CONNECT, a space, a        *)
(* newline, the characters of a host name, a decimal number, or a data     *)
(* byte. Adjacent symbols that are not whitespace form one token, as the   *)
(* characters of a string do.                                              *)
(***************************************************************************)
MaxTasks == 1         \* connections (handle_client tasks) alive at the same time

BufSize == 1024       \* let mut buf = vec![0u8; 1024]
U16Max == 65535       \* let port: u16

SP == " "
NL == "\n"
CR == "\r"
IsWhitespace(ch) == ch \in {SP, NL, CR}

Min2(a, b) == IF a <= b THEN a ELSE b

IsPrefix(s, t) == Len(s) <= Len(t) /\ SubSeq(t, 1, Len(s)) = s

\* str::trim
RECURSIVE TrimStart(_)
TrimStart(s) ==
    IF s # <<>> /\ IsWhitespace(Head(s)) THEN TrimStart(Tail(s)) ELSE s

RECURSIVE TrimEnd(_)
TrimEnd(s) ==
    IF s # <<>> /\ IsWhitespace(s[Len(s)]) THEN TrimEnd(SubSeq(s, 1, Len(s) - 1)) ELSE s

Trim(s) == TrimEnd(TrimStart(s))

\* str::starts_with
StartsWith(s, prefix) == IsPrefix(prefix, s)

\* str::split_whitespace: the maximal runs of non-whitespace, in order.
RECURSIVE SplitLoop(_, _, _)
SplitLoop(s, cur, acc) ==
    IF s = <<>> THEN (IF cur = <<>> THEN acc ELSE Append(acc, cur))
    ELSE IF IsWhitespace(Head(s))
         THEN SplitLoop(Tail(s), <<>>, IF cur = <<>> THEN acc ELSE Append(acc, cur))
         ELSE SplitLoop(Tail(s), Append(cur, Head(s)), acc)

SplitWhitespace(s) == SplitLoop(s, <<>>, <<>>)

\* The decimal numbers that occur in requests, with their values.
Numbers == {"443", "70000"}
NumberValue(sym) == IF sym = "443" THEN 443 ELSE 70000

\* parts[2].parse::<u16>(): one decimal number that fits 16 bits. (A token of two or
\* more of the symbols above is never a decimal number in range.)
ParsePort(tok) ==
    IF Len(tok) = 1 /\ tok[1] \in Numbers /\ NumberValue(tok[1]) <= U16Max
    THEN Some(NumberValue(tok[1]))
    ELSE None

\* handle_client, from the first read to the parsed (host, port):
\* "empty" when read returned 0, "error" when an ERROR reply is due, else "ok".
ParseRequest(rx) ==
    LET request_str == Trim(rx)
        parts == SplitWhitespace(request_str)
    IN  IF Len(rx) = 0 THEN [kind |-> "empty", host |-> <<>>, port |-> 0]
        ELSE IF ~StartsWith(request_str, <<"CONNECT", SP>>)
             THEN [kind |-> "error", host |-> <<>>, port |-> 0]
        ELSE IF Len(parts) # 3 THEN [kind |-> "error", host |-> <<>>, port |-> 0]
        ELSE IF ~IsSome(ParsePort(parts[3]))
             THEN [kind |-> "error", host |-> <<>>, port |-> 0]
        ELSE [kind |-> "ok", host |-> parts[2], port |-> Unwrap(ParsePort(parts[3]))]

\* A handler that dials whatever the engine says.
PolicyAllowsAlways(c, e, host) == TRUE

\* `if let Some(ref policy_engine) = config.policy_engine { allowed = ...allow(host, None) }`
PolicyAllows(c, e, host) == c.policy_engine => Allow(e, host, None)

(***************************************************************************)
(* LearningRecorder::save_to_file (filter/learning.rs). The file is the    *)
(* list of its [network.groups.<name>] tables, each with its hosts; a TOML *)
(* document that defines a table twice does not parse.                     *)
(***************************************************************************)
SessionName == "learned_session"

FileParses(f) ==
    \A i, j \in 1..Len(f.groups) : f.groups[i].name = f.groups[j].name => i = j

\* load_existing_domains: every host of every group of the file.
load_existing_domains(f) == UNION {f.groups[i].hosts : i \in 1..Len(f.groups)}

save_to_file(hosts, f) ==
    LET fresh == IF f.exists THEN hosts \ load_existing_domains(f) ELSE hosts
    IN  IF f.exists /\ ~FileParses(f) THEN f
        ELSE IF fresh = {} THEN f
        ELSE [exists |-> TRUE,
              groups |-> Append(f.groups, [name |-> SessionName, hosts |-> fresh])]

\* handle_client lines 185-195: record, then save when an output path is set.
RecordedHosts(c, hosts, host) == IF c.learning_recorder THEN hosts \cup {host} ELSE hosts

SavedFile(c, hosts, f) ==
    IF c.learning_recorder /\ c.learning_output THEN save_to_file(hosts, f) ELSE f

(***************************************************************************)
(* Clients, destinations and configurations of the daemon runs.            *)
(***************************************************************************)
RequestLine(host, number) == <<"CONNECT", SP>> \o host \o <<SP, number, NL>>

Requests ==
    { RequestLine(HostAC, "443"),
      RequestLine(HostD, "443"),
      RequestLine(HostBC, "443"),
      <<"x", NL>>,                                   \* HELLO\n
      <<>>,                                          \* connect, send nothing, close
      <<"CONNECT", SP, "d", SP, "443">>,             \* no terminating newline
      RequestLine(HostD, "70000"),                   \* port out of range
      <<"CONNECT", SP, "d", SP, "443", SP, "x", NL>>,\* an extra token
      <<"CONNECT", SP, SP, "d", SP, "443", NL>>,     \* extra whitespace
      <<"CONNECT", SP, "d", NL>>,                    \* a missing token
      RequestLine(HostAC, "443") \o <<"x", "y">>,    \* tunnel data behind the request
      RequestLine(HostAC, "443") \o <<NL, "x">> }

\* What a destination sends once connected.
DestData == <<"y", "z">>

Replies == {"OK", "BLOCKED", "FAIL", "ERROR"}

\* allow *.c, default-deny: a.c passes, d is denied.
EngineStarC == Engine(HostMatcher(<<PatStarC>>, <<>>, <<>>), NewMatcher, "Allow", FALSE)
\* allow *, deny a.c: d passes, a.c is denied on the tie.
EngineNotAC ==
    Engine(HostMatcher(<<PatStar>>, <<>>, <<>>), HostMatcher(<<HostAC>>, <<>>, <<>>),
           "Allow", FALSE)
DaemonEngines == {EngineStarC, EngineNotAC}

ServerConfigs ==
    { [policy_engine |-> e, learning_recorder |-> l[1], learning_output |-> l[2]] :
        e \in BOOLEAN, l \in {<<FALSE, FALSE>>, <<TRUE, FALSE>>, <<TRUE, TRUE>>} }

NoFile == [exists |-> FALSE, groups |-> <<>>]
OldFile == [exists |-> TRUE, groups |-> <<[name |-> "old", hosts |-> {HostAC}]>>]

Tasks == 1..MaxTasks

FreeConn ==
    [st |-> "free", req |-> <<>>, nsent |-> 0, c2d |-> <<>>, rx |-> <<>>,
     host |-> <<>>, port |-> 0, tcp |-> "none", cout |-> <<>>, d2r |-> <<>>,
     rsent |-> 0, r2d |-> <<>>, result |-> "none"]

Init ==
    /\ cfg \in ServerConfigs
    /\ pe \in (IF cfg.policy_engine THEN DaemonEngines ELSE {EngineStarC})
    /\ q_host = HostD
    /\ answers = [ip \in IpArgs |-> "unasked"]
    /\ daemon = [st |-> "init", first_connection |-> TRUE, accepts |-> 0, saves |-> 0]
    /\ path_exists \in BOOLEAN          \* a stale socket file may be there
    /\ mounted = FALSE
    /\ conns = [t \in Tasks |-> FreeConn]
    /\ rec_hosts = {}
    /\ denied_hosts = {}
    /\ file \in (IF cfg.learning_output THEN {NoFile, OldFile} ELSE {NoFile})
    /\ last_done = "none"
    /\ ConfigIdle
    /\ SandboxIdle

(***************************************************************************)
(* ProxyServer::start                                                      *)
(***************************************************************************)
\* An accept loop that never unlinks the socket.
unlink_never(first_connection, exists) == exists

\* `if first_connection { ...; let _ = std::fs::remove_file(&socket_path); }`
unlink_after_accept(first_connection, exists) ==
    IF first_connection THEN FALSE ELSE exists

\* An accept loop that awaits the handler and returns its error.
after_handler_propagates(d, result) ==
    IF result = "Err" THEN [d EXCEPT !.st = "failed"] ELSE d

\* `tokio::spawn(async move { let _ = handle_client(socket, config).await; })`:
\* the handler's result is dropped in its own task.
after_handler(d, result) == d

\* remove_file, then UnixListener::bind succeeds.
Start ==
    /\ daemon.st = "init"
    /\ daemon' = [daemon EXCEPT !.st = "listening"]
    /\ path_exists' = TRUE
    /\ UNCHANGED <<nvars, cfg, mounted, conns, rec_hosts, file, last_done>>

\* remove_file, then UnixListener::bind fails and start returns the error.
StartBindFails ==
    /\ daemon.st = "init"
    /\ daemon' = [daemon EXCEPT !.st = "failed"]
    /\ path_exists' = FALSE
    /\ UNCHANGED <<nvars, cfg, mounted, conns, rec_hosts, file, last_done>>

\* The sandbox builder binds the socket path at /proxy.sock.
SandboxMount ==
    /\ path_exists /\ daemon.st = "listening" /\ ~mounted
    /\ mounted' = TRUE
    /\ UNCHANGED <<nvars, cfg, daemon, path_exists, conns, rec_hosts, file, last_done>>

\* A client connects, through the host path or through the sandbox's bind mount,
\* with the bytes it is going to send.
ClientConnect(t, req, via) ==
    /\ conns[t].st \in {"free", "done"}
    /\ daemon.st = "listening"
    /\ IF via = "host" THEN path_exists ELSE mounted
    /\ conns' = [conns EXCEPT ![t] = [FreeConn EXCEPT !.st = "pending", !.req = req]]
    /\ UNCHANGED <<nvars, cfg, daemon, path_exists, mounted, rec_hosts, file, last_done>>

\* listener.accept() returns a connection: unlink on the first one, spawn the handler.
Accept(t) ==
    /\ daemon.st = "listening"
    /\ conns[t].st = "pending"
    /\ path_exists' = unlink_after_accept(daemon.first_connection, path_exists)
    /\ daemon' = [daemon EXCEPT !.first_connection = FALSE,
                                !.accepts = Min2(daemon.accepts + 1, 2)]
    /\ conns' = [conns EXCEPT ![t].st = "read"]
    /\ UNCHANGED <<nvars, cfg, mounted, rec_hosts, file, last_done>>

\* listener.accept() returns an error: `result.map_err(..)?` ends start.
AcceptFails ==
    /\ daemon.st = "listening"
    /\ daemon' = [daemon EXCEPT !.st = "failed"]
    /\ UNCHANGED <<nvars, cfg, path_exists, mounted, conns, rec_hosts, file, last_done>>

\* save_learning_data: the number of save_to_file calls it makes.
LearningSaves(c) == IF c.learning_recorder /\ c.learning_output THEN 1 ELSE 0

\* A select! arm that saves and goes round the loop again.
after_signal_continues(d) == d

\* `self.save_learning_data(); break;` and the `Ok(())` behind the loop
after_signal(d) == [d EXCEPT !.st = "stopped"]

\* SIGTERM or SIGINT: save_learning_data, break.
Signal(sig) ==
    /\ daemon.st = "listening"
    /\ daemon' = [after_signal(daemon) EXCEPT !.saves = Min2(@ + LearningSaves(cfg), 2)]
    /\ file' = SavedFile(cfg, rec_hosts, file)
    /\ UNCHANGED <<nvars, cfg, path_exists, mounted, conns, rec_hosts, last_done>>

(***************************************************************************)
(* handle_client                                                           *)
(***************************************************************************)
\* One round of tokio::io::copy_bidirectional in one direction: what was read is
\* written to the other side behind what it already got.
Splice(delivered, chunk) == delivered \o chunk

\* The first read (up to the buffer size of what has arrived) and all the handler
\* does with it before it awaits again: parse, reply ERROR, check the policy, reply
\* BLOCKED, or go on to dial.
HandleRead(c, e, conn) ==
    LET n == Min2(Len(conn.c2d), BufSize)
        rx == SubSeq(conn.c2d, 1, n)
        rest == SubSeq(conn.c2d, n + 1, Len(conn.c2d))
        p == ParseRequest(rx)
    IN  IF p.kind = "empty"
        THEN [conn EXCEPT !.st = "done", !.result = "Ok"]
        ELSE IF p.kind = "error"
        THEN [conn EXCEPT !.st = "done", !.result = "Ok", !.rx = rx, !.c2d = rest,
                          !.cout = <<"ERROR">>]
        ELSE IF ~PolicyAllows(c, e, p.host)
        THEN [conn EXCEPT !.st = "done", !.result = "Ok", !.rx = rx, !.c2d = rest,
                          !.host = p.host, !.port = p.port, !.cout = <<"BLOCKED">>]
        ELSE [conn EXCEPT !.st = "connect", !.rx = rx, !.c2d = rest,
                          !.host = p.host, !.port = p.port]

\* How a finished handler is remembered.
Outcome(conn) ==
    IF conn.result = "Err" THEN "io"
    ELSE IF conn.cout = <<>> THEN "silent"
    ELSE conn.cout[1]

\* A handler that records the host before it looks at the policy's answer.
RecordedBeforeCheck(c, hosts, next) ==
    IF next.host # <<>> THEN RecordedHosts(c, hosts, next.host) ELSE hosts

\* handle_client lines 174-188: the returns at ERROR and BLOCKED come before
\* `learning_recorder.record(host, None)`, which only a request that goes on to
\* the dial reaches.
Recorded(c, hosts, next) ==
    IF next.st = "connect" THEN RecordedHosts(c, hosts, next.host) ELSE hosts

\* The client writes its next k bytes.
ClientWrite(t, k) ==
    /\ conns[t].st \in {"pending", "read", "connect", "tunnel"}
    /\ conns[t].nsent + k <= Len(conns[t].req)
    /\ conns' = [conns EXCEPT
            ![t].c2d = @ \o SubSeq(conns[t].req, conns[t].nsent + 1, conns[t].nsent + k),
            ![t].nsent = @ + k]
    /\ UNCHANGED <<nvars, cfg, daemon, path_exists, mounted, rec_hosts, file, last_done>>

\* stream.read returns: bytes have arrived, or the client has sent all it had and
\* closed.
ReadRequest(t) ==
    LET conn == conns[t]
        next == HandleRead(cfg, pe, conn)
        hosts == Recorded(cfg, rec_hosts, next)
    IN  /\ conn.st = "read"
        /\ conn.c2d # <<>> \/ conn.nsent = Len(conn.req)
        /\ conns' = [conns EXCEPT ![t] = next]
        /\ rec_hosts' = hosts
        /\ IF next.st = "connect"
           THEN /\ file' = SavedFile(cfg, hosts, file)
                /\ UNCHANGED <<daemon, last_done>>
           ELSE /\ daemon' = after_handler(daemon, next.result)
                /\ last_done' = Outcome(next)
                /\ file' = IF hosts = rec_hosts THEN file ELSE SavedFile(cfg, hosts, file)
        /\ UNCHANGED <<nvars, cfg, path_exists, mounted>>

\* stream.read(&mut buf).await? fails: the handler returns the error.
ReadFails(t) ==
    /\ conns[t].st = "read"
    /\ conns' = [conns EXCEPT ![t].st = "done", ![t].result = "Err"]
    /\ daemon' = after_handler(daemon, "Err")
    /\ last_done' = "io"
    /\ UNCHANGED <<nvars, cfg, path_exists, mounted, rec_hosts, file>>

\* TcpStream::connect succeeds and OK is written.
ConnectOk(t) ==
    /\ conns[t].st = "connect"
    /\ conns' = [conns EXCEPT ![t].st = "tunnel", ![t].tcp = "ok", ![t].cout = <<"OK">>]
    /\ UNCHANGED <<nvars, cfg, daemon, path_exists, mounted, rec_hosts, file, last_done>>

\* TcpStream::connect succeeds but `stream.write_all(b"OK\n").await?` fails.
ConnectOkWriteFails(t) ==
    /\ conns[t].st = "connect"
    /\ conns' = [conns EXCEPT ![t].st = "done", ![t].tcp = "ok", ![t].result = "Err"]
    /\ daemon' = after_handler(daemon, "Err")
    /\ last_done' = "io"
    /\ UNCHANGED <<nvars, cfg, path_exists, mounted, rec_hosts, file>>

\* TcpStream::connect fails: FAIL.
ConnectFails(t) ==
    /\ conns[t].st = "connect"
    /\ conns' = [conns EXCEPT ![t].st = "done", ![t].tcp = "fail", ![t].result = "Ok",
                              ![t].cout = <<"FAIL">>]
    /\ daemon' = after_handler(daemon, "Ok")
    /\ last_done' = "FAIL"
    /\ UNCHANGED <<nvars, cfg, path_exists, mounted, rec_hosts, file>>

\* The destination writes its next k bytes.
DestWrite(t, k) ==
    /\ conns[t].st = "tunnel"
    /\ conns[t].rsent + k <= Len(DestData)
    /\ conns' = [conns EXCEPT
            ![t].r2d = @ \o SubSeq(DestData, conns[t].rsent + 1, conns[t].rsent + k),
            ![t].rsent = @ + k]
    /\ UNCHANGED <<nvars, cfg, daemon, path_exists, mounted, rec_hosts, file, last_done>>

\* copy_bidirectional moves what the client sent to the destination.
CopyToRemote(t) ==
    /\ conns[t].st = "tunnel"
    /\ conns[t].c2d # <<>>
    /\ conns' = [conns EXCEPT ![t].d2r = Splice(@, conns[t].c2d), ![t].c2d = <<>>]
    /\ UNCHANGED <<nvars, cfg, daemon, path_exists, mounted, rec_hosts, file, last_done>>

\* copy_bidirectional moves what the destination sent to the client.
CopyToClient(t) ==
    /\ conns[t].st = "tunnel"
    /\ conns[t].r2d # <<>>
    /\ conns' = [conns EXCEPT ![t].cout = Splice(@, conns[t].r2d), ![t].r2d = <<>>]
    /\ UNCHANGED <<nvars, cfg, daemon, path_exists, mounted, rec_hosts, file, last_done>>

\* Both sides have sent everything and closed: copy_bidirectional returns Ok.
TunnelEnds(t) ==
    /\ conns[t].st = "tunnel"
    /\ conns[t].nsent = Len(conns[t].req) /\ conns[t].c2d = <<>>
    /\ conns[t].rsent = Len(DestData) /\ conns[t].r2d = <<>>
    /\ conns' = [conns EXCEPT ![t].st = "done", ![t].result = "Ok"]
    /\ daemon' = after_handler(daemon, "Ok")
    /\ last_done' = "OK"
    /\ UNCHANGED <<nvars, cfg, path_exists, mounted, rec_hosts, file>>

\* copy_bidirectional returns an error: it is logged and the handler returns Ok.
TunnelFails(t) ==
    /\ conns[t].st = "tunnel"
    /\ conns' = [conns EXCEPT ![t].st = "done", ![t].result = "Ok"]
    /\ daemon' = after_handler(daemon, "Ok")
    /\ last_done' = "tunnel_error"
    /\ UNCHANGED <<nvars, cfg, path_exists, mounted, rec_hosts, file>>

Next ==
    \/ Start
    \/ StartBindFails
    \/ SandboxMount
    \/ AcceptFails
    \/ \E sig \in {"SIGTERM", "SIGINT"} : Signal(sig)
    \/ \E t \in Tasks, req \in Requests, via \in {"host", "mount"} : ClientConnect(t, req, via)
    \/ \E t \in Tasks : Accept(t)
    \/ \E t \in Tasks, k \in 1..8 : ClientWrite(t, k)
    \/ \E t \in Tasks : ReadRequest(t)
    \/ \E t \in Tasks : ReadFails(t)
    \/ \E t \in Tasks : ConnectOk(t)
    \/ \E t \in Tasks : ConnectOkWriteFails(t)
    \/ \E t \in Tasks : ConnectFails(t)
    \/ \E t \in Tasks, k \in 1..Len(DestData) : DestWrite(t, k)
    \/ \E t \in Tasks : CopyToRemote(t)
    \/ \E t \in Tasks : CopyToClient(t)
    \/ \E t \in Tasks : TunnelEnds(t)
    \/ \E t \in Tasks : TunnelFails(t)

Spec == Init /\ [][Next]_vars

(***************************************************************************)
(* Configuration: IndexMap, the group validator, the filesystem resolver,  *)
(* the merge of configurations and the load.                               *)
(*                                                                         *)
(* An IndexMap is the sequence of its <<key, value>> entries in insertion  *)
(* order, no key twice.                                                    *)
(***************************************************************************)
MaxGroups == 3        \* entries of network.groups, and names they may refer to

\* Neither the policy engine nor the daemon is in use.
ProxyIdle ==
    /\ pe = Engine(NewMatcher, NewMatcher, "Deny", FALSE)
    /\ q_host = HostD
    /\ answers = [ip \in IpArgs |-> "unasked"]
    /\ cfg = [policy_engine |-> FALSE, learning_recorder |-> FALSE, learning_output |-> FALSE]
    /\ daemon = [st |-> "init", first_connection |-> TRUE, accepts |-> 0, saves |-> 0]
    /\ path_exists = FALSE
    /\ mounted = FALSE
    /\ conns = <<>>
    /\ rec_hosts = {}
    /\ denied_hosts = {}
    /\ file = [exists |-> FALSE, groups |-> <<>>]
    /\ last_done = "none"

Range(s) == {s[i] : i \in 1..Len(s)}

Keys(m) == {m[i][1] : i \in 1..Len(m)}
ContainsKey(m, k) == k \in Keys(m)
IndexOf(m, k) == CHOOSE i \in 1..Len(m) : m[i][1] = k
\* IndexMap::get of a key the map has
Get(m, k) == m[IndexOf(m, k)][2]

Ok == [ok |-> TRUE]
Err(kind, what) == [ok |-> FALSE, kind |-> kind, what |-> what]

\* str::contains for a pattern of characters
RECURSIVE Contains(_, _)
Contains(s, sub) ==
    IF Len(s) < Len(sub) THEN FALSE
    ELSE IF IsPrefix(sub, s) THEN TRUE
    ELSE Contains(Tail(s), sub)

HostGroup(hosts, hosts_deny, groups) ==
    [hosts |-> hosts, hosts_deny |-> hosts_deny, groups |-> groups]

\* dfs_cycle_check and its `for child in &group.groups` loop, on (visited, path):
\* the result is what they are afterwards and the error, if one was returned.
RECURSIVE dfs_cycle_check(_, _, _, _)
RECURSIVE DfsChildren(_, _, _, _)
dfs_cycle_check(group_name, groups, visited, path) ==
    IF group_name \in Range(path)
    THEN [visited |-> visited, path |-> Append(path, group_name),
          res |-> Err("CycleDetected", Append(path, group_name))]
    ELSE IF group_name \in visited
    THEN [visited |-> visited, path |-> path, res |-> Ok]
    ELSE LET children == IF ContainsKey(groups, group_name)
                         THEN Get(groups, group_name).groups ELSE <<>>
             r == DfsChildren(children, groups, visited \cup {group_name},
                              Append(path, group_name))
         IN  IF r.res.ok THEN [r EXCEPT !.path = SubSeq(r.path, 1, Len(r.path) - 1)]
             ELSE r

DfsChildren(children, groups, visited, path) ==
    IF children = <<>> THEN [visited |-> visited, path |-> path, res |-> Ok]
    ELSE LET r == dfs_cycle_check(Head(children), groups, visited, path)
         IN  IF r.res.ok THEN DfsChildren(Tail(children), groups, r.visited, r.path)
             ELSE r

\* check_cycles: a search from every group, each with a fresh visited set and path.
RECURSIVE CheckCyclesFrom(_, _)
CheckCyclesFrom(i, groups) ==
    IF i > Len(groups) THEN Ok
    ELSE LET r == dfs_cycle_check(groups[i][1], groups, {}, <<>>)
         IN  IF r.res.ok THEN CheckCyclesFrom(i + 1, groups) ELSE r.res

\* A check that searches from the first group only.
check_cycles_first(groups) ==
    IF groups = <<>> THEN Ok ELSE dfs_cycle_check(groups[1][1], groups, {}, <<>>).res

check_cycles(groups) == CheckCyclesFrom(1, groups)

\* validate_references: the first reference, in order, to a group that is not there.
validate_references(groups) ==
    LET bad == UNION {{<<i, j>> : j \in {k \in 1..Len(groups[i][2].groups) :
                                          ~ContainsKey(groups, groups[i][2].groups[k])}} :
                      i \in 1..Len(groups)}
    IN  IF bad = {} THEN Ok
        ELSE LET f == CHOOSE b \in bad :
                        \A c \in bad : b[1] < c[1] \/ (b[1] = c[1] /\ b[2] <= c[2])
             IN  Err("UnknownGroup", <<groups[f[1]][1], groups[f[1]][2].groups[f[2]]>>)

NUL == "\\0"

\* The two tests validate_patterns makes of one pattern.
InvalidPattern(pattern) ==
    \/ Contains(pattern, <<"*", "*">>)
    \/ Contains(pattern, <<NUL>>) \/ Contains(pattern, <<NL>>)

\* `for pattern in &group.hosts`: the patterns validate_patterns looks at.
PatternsChecked(group) == group.hosts

\* validate_patterns: the first invalid pattern, in order, of the patterns it checks.
validate_patterns(groups) ==
    LET bad == UNION {{<<i, j>> : j \in {k \in 1..Len(PatternsChecked(groups[i][2])) :
                                          InvalidPattern(PatternsChecked(groups[i][2])[k])}} :
                      i \in 1..Len(groups)}
    IN  IF bad = {} THEN Ok
        ELSE LET f == CHOOSE b \in bad :
                        \A c \in bad : b[1] < c[1] \/ (b[1] = c[1] /\ b[2] <= c[2])
             IN  Err("InvalidPattern",
                     <<PatternsChecked(groups[f[1]][2])[f[2]], groups[f[1]][1]>>)

\* ConfigValidator::validate: the three checks in order, the first error returned.
validate(groups) ==
    IF ~check_cycles(groups).ok THEN check_cycles(groups)
    ELSE IF ~validate_references(groups).ok THEN validate_references(groups)
    ELSE validate_patterns(groups)

(***************************************************************************)
(* The networks validated: group graphs without patterns, and groups with  *)
(* patterns that refer to no group.                                        *)
(***************************************************************************)
NameSeq == <<"a", "b", "c", "d", "e", "f">>
GroupNames == {NameSeq[i] : i \in 1..MaxGroups}

RefLists == {<<>>} \cup {<<x>> : x \in GroupNames} \cup {<<x, y>> : x, y \in GroupNames}

PatDouble == <<"*", "*", ".", "c">>
PatNul == <<"a", NUL, "c">>
PatNl == <<"a", ".", "c", NL>>
HostLists == {<<>>, <<PatStarC>>, <<PatDouble>>, <<PatNul>>, <<PatStarC, PatNl>>}

\* (hosts, hosts_deny) of a group: patterns in one list, or a valid allow pattern
\* with an invalid deny pattern.
HostListPairs ==
    {<<h, <<>>>> : h \in HostLists} \cup {<<<<>>, h>> : h \in HostLists}
        \cup {<<<<PatStarC>>, <<PatDouble>>>>}

\* n groups that refer to each other and have no patterns.
GraphNetwork(n, f) == [i \in 1..n |-> <<NameSeq[i], HostGroup(<<>>, <<>>, f[i])>>]

\* n groups with patterns that refer to no group.
PatternNetwork(n, f) == [i \in 1..n |-> <<NameSeq[i], HostGroup(f[i][1], f[i][2], <<>>)>>]

ValidatorInit ==
    /\ ProxyIdle
    /\ SandboxIdle
    /\ \E n \in 1..MaxGroups :
          \/ \E f \in [1..n -> RefLists] : network = GraphNetwork(n, f)
          \/ \E f \in [1..n -> HostListPairs] : network = PatternNetwork(n, f)
    /\ validation = [step |-> "start"]
    /\ fs_configs = <<>>
    /\ resolved = [name |-> "none"]
    /\ base_cfg = "none"
    /\ override_cfg = "none"
    /\ merged = [done |-> FALSE]
    /\ loaded = [done |-> FALSE]

ovars == <<pe, pvars, dvars, xvars>>

\* validate, first step: Self::check_cycles(network)?
CheckCycles ==
    /\ validation.step = "start"
    /\ validation' = LET r == check_cycles(network)
                     IN  [step |-> IF r.ok THEN "cycles" ELSE "done",
                          cycles |-> r, result |-> r]
    /\ UNCHANGED <<ovars, network, fs_configs, resolved, base_cfg, override_cfg, merged, loaded>>

\* validate, second step: Self::validate_references(network)?
ValidateReferences ==
    /\ validation.step = "cycles"
    /\ validation' = LET r == validate_references(network)
                     IN  [validation EXCEPT !.step = IF r.ok THEN "references" ELSE "done",
                                            !.result = r]
    /\ UNCHANGED <<ovars, network, fs_configs, resolved, base_cfg, override_cfg, merged, loaded>>

\* validate, third step: Self::validate_patterns(network)?; Ok(())
ValidatePatterns ==
    /\ validation.step = "references"
    /\ validation' = [validation EXCEPT !.step = "done",
                                        !.result = validate_patterns(network)]
    /\ UNCHANGED <<ovars, network, fs_configs, resolved, base_cfg, override_cfg, merged, loaded>>

ValidatorNext == CheckCycles \/ ValidateReferences \/ ValidatePatterns

ValidatorSpec == ValidatorInit /\ [][ValidatorNext]_vars

(***************************************************************************)
(* resolve_filesystem_config (bwrap-core/src/config/resolver.rs)           *)
(***************************************************************************)
MaxSpecs == 3         \* entries of filesystem.configs, and names they may extend

ListFields ==
    {"ro_home_dirs", "rw_home_dirs", "ro_home_files", "rw_home_files",
     "essential_etc_files", "essential_etc_dirs", "system_paths", "ro_paths", "rw_paths"}

\* Option::or
OptionOr(a, b) == IF IsSome(a) THEN a ELSE b

\* A merge that puts the overriding spec's entries first.
merge_filesystem_specs_reversed(base, override_spec) ==
    [f \in ListFields \cup {"description", "extends"} |->
        IF f = "description" THEN OptionOr(override_spec.description, base.description)
        ELSE IF f = "extends" THEN <<>>
        ELSE override_spec[f] \o base[f]]

\* merge_filesystem_specs: every list field of base extended by the override's.
merge_filesystem_specs(base, override_spec) ==
    [f \in ListFields \cup {"description", "extends"} |->
        IF f = "description" THEN OptionOr(override_spec.description, base.description)
        ELSE IF f = "extends" THEN <<>>
        ELSE base[f] \o override_spec[f]]

\* FilesystemSpec::default()
DefaultFilesystemSpec ==
    [f \in ListFields \cup {"description", "extends"} |->
        IF f = "description" THEN None ELSE <<>>]

\* resolve_filesystem_recursive and its `for parent_name in &spec.extends` loop.
\* The result is the visited set afterwards and the Result returned.
RECURSIVE resolve_filesystem_recursive(_, _, _)
RECURSIVE ResolveParents(_, _, _, _)
resolve_filesystem_recursive(configs, name, visited) ==
    IF name \in visited
    THEN [visited |-> visited, res |-> Err("ConfigError", <<"Circular reference", name>>)]
    ELSE IF ~ContainsKey(configs, name)
    THEN [visited |-> visited \cup {name},
          res |-> Err("ConfigError", <<"not found", name>>)]
    ELSE LET spec == Get(configs, name)
         IN  IF spec.extends = <<>>
             THEN [visited |-> visited \cup {name}, res |-> [ok |-> TRUE, spec |-> spec]]
             ELSE LET r == ResolveParents(configs, spec.extends, visited \cup {name},
                                          DefaultFilesystemSpec)
                  IN  IF r.res.ok
                      THEN [r EXCEPT !.res.spec = merge_filesystem_specs(r.res.spec, spec)]
                      ELSE r

ResolveParents(configs, parents, visited, merged_spec) ==
    IF parents = <<>> THEN [visited |-> visited, res |-> [ok |-> TRUE, spec |-> merged_spec]]
    ELSE LET parent == resolve_filesystem_recursive(configs, Head(parents), visited)
         IN  IF parent.res.ok
             THEN ResolveParents(configs, Tail(parents), parent.visited,
                                 merge_filesystem_specs(merged_spec, parent.res.spec))
             ELSE parent

resolve_filesystem_config(configs, name) == resolve_filesystem_recursive(configs, name, {}).res

(***************************************************************************)
(* The filesystem configurations resolved: every list field of the spec    *)
(* named n holds one entry of its own, <<field, n>>.                       *)
(***************************************************************************)
SpecNames == {NameSeq[i] : i \in 1..MaxSpecs}

ExtendsLists ==
    {<<>>} \cup {<<x>> : x \in SpecNames}
           \cup {p \in SpecNames \X SpecNames : p[1] # p[2]}

FilesystemSpec(n, extends) ==
    [f \in ListFields \cup {"description", "extends"} |->
        IF f = "description" THEN (IF n = NameSeq[1] THEN None ELSE Some(n))
        ELSE IF f = "extends" THEN extends
        ELSE << <<f, n>> >>]

ResolverInit ==
    /\ ProxyIdle
    /\ SandboxIdle
    /\ network = <<>>
    /\ validation = [step |-> "none"]
    /\ \E n \in 1..MaxSpecs : \E f \in [1..n -> ExtendsLists] :
          fs_configs = [i \in 1..n |-> <<NameSeq[i], FilesystemSpec(NameSeq[i], f[i])>>]
    /\ resolved = [name |-> "none"]
    /\ base_cfg = "none"
    /\ override_cfg = "none"
    /\ merged = [done |-> FALSE]
    /\ loaded = [done |-> FALSE]

\* resolve_filesystem_config(config, name)
ResolveFilesystemConfig(name) ==
    /\ resolved.name # name
    /\ resolved' = [name |-> name, res |-> resolve_filesystem_config(fs_configs, name)]
    /\ UNCHANGED <<ovars, network, validation, fs_configs, base_cfg, override_cfg, merged,
                   loaded>>

ResolverNext == \E name \in SpecNames : ResolveFilesystemConfig(name)

ResolverSpec == ResolverInit /\ [][ResolverNext]_vars


(***************************************************************************)
(* ConfigLoader::merge_configs and load_with_priority                      *)
(* (bwrap-core/src/config/loader.rs)                                       *)
(***************************************************************************)
MaxKeys == 2          \* entries of each map of a Config

\* An insert that keeps the entry the map already has (entry().or_insert()).
InsertKeepsOld(m, k, v) ==
    IF ContainsKey(m, k) THEN m ELSE Append(m, <<k, v>>)

\* IndexMap::insert: the value of a key the map has is replaced in place; a new key
\* goes to the end.
Insert(m, k, v) ==
    IF ContainsKey(m, k) THEN [m EXCEPT ![IndexOf(m, k)] = <<k, v>>]
    ELSE Append(m, <<k, v>>)

\* A merge that chains the two maps.
MergeMapExtends(base, over) == base \o over

\* `for (name, x) in override_cfg.<map> { base.<map>.insert(name, x); }`
RECURSIVE MergeMap(_, _)
MergeMap(base, over) ==
    IF over = <<>> THEN base
    ELSE MergeMap(Insert(base, Head(over)[1], Head(over)[2]), Tail(over))

merge_configs(base, override) ==
    [common |-> override.common,
     network |-> [groups |-> MergeMap(base.network.groups, override.network.groups)],
     filesystem |-> [configs |-> MergeMap(base.filesystem.configs,
                                          override.filesystem.configs)],
     policy |-> [policies |-> MergeMap(base.policy.policies, override.policy.policies)],
     tools |-> MergeMap(base.tools, override.tools)]

\* load_from_file of a layer: the file does not read or parse, or gives its Config.
Unreadable == [unreadable |-> TRUE]
load_from_file(layer) == IF "unreadable" \in DOMAIN layer THEN Err("ConfigLoad", "unreadable")
                         ELSE [ok |-> TRUE, config |-> layer]

\* configs.into_iter().reduce(|acc, cfg| Self::merge_configs(acc, cfg))
RECURSIVE Reduce(_, _)
Reduce(acc, configs) ==
    IF configs = <<>> THEN acc ELSE Reduce(merge_configs(acc, Head(configs)), Tail(configs))

\* load_with_priority: built-in, then the user, project and explicit files that are
\* there (each an Option), the first load error returned, else the merge of all.
load_with_priority(builtin, user, project, explicit) ==
    LET files == user \o project \o explicit
        failed == {i \in 1..Len(files) : ~load_from_file(files[i]).ok}
    IN  IF failed # {}
        THEN load_from_file(files[CHOOSE i \in failed : \A j \in failed : i <= j])
        ELSE [ok |-> TRUE, config |-> Reduce(builtin, files)]

(***************************************************************************)
(* The configurations merged: base and override each have one shape, a     *)
(* list of <<key, n>>, and every map of the Config has that shape with the *)
(* n-th value of its own type.                                             *)
(***************************************************************************)
KeyNames == {NameSeq[i] : i \in 1..MaxKeys}

HostGroupValues ==
    <<HostGroup(<<PatStarC>>, <<>>, <<>>), HostGroup(<<>>, <<HostAC>>, <<"a">>)>>
FilesystemSpecValues == <<FilesystemSpec("a", <<>>), FilesystemSpec("b", <<"a">>)>>
NetworkPolicy(network_mode, default, allow_groups, deny_groups, groups) ==
    [network |-> network_mode, default |-> default, allow_groups |-> allow_groups,
     deny_groups |-> deny_groups, groups |-> groups]
PolicyValues ==
    <<[description |-> None, filesystem |-> None,
       network |-> NetworkPolicy("Proxy", "Deny", <<"a">>, <<>>, <<>>)],
      [description |-> Some("p"), filesystem |-> Some("a"),
       network |-> NetworkPolicy("Open", "Allow", <<>>, <<"a">>, <<>>)]>>
ToolConfigValues ==
    <<[enabled |-> TRUE, proxy_mode |-> None, default_policy |-> None],
      [enabled |-> FALSE, proxy_mode |-> Some("open"), default_policy |-> Some("a")]>>
CommonConfigs ==
    {[config_version |-> "1.0", verbose |-> v, proxy |-> "default"] : v \in BOOLEAN}

MapOf(shape, values) == [i \in 1..Len(shape) |-> <<shape[i][1], values[shape[i][2]]>>]

ConfigOf(shape, common) ==
    [common |-> common,
     network |-> [groups |-> MapOf(shape, HostGroupValues)],
     filesystem |-> [configs |-> MapOf(shape, FilesystemSpecValues)],
     policy |-> [policies |-> MapOf(shape, PolicyValues)],
     tools |-> MapOf(shape, ToolConfigValues)]

Injective(f) == \A i, j \in DOMAIN f : f[i] = f[j] => i = j

\* The Configs with n entries per map.
ConfigsOfSize(n) ==
    {ConfigOf([i \in 1..n |-> <<ks[i], vs[i]>>], common) :
        ks \in {f \in [1..n -> KeyNames] : Injective(f)},
        vs \in [1..n -> {1, 2}], common \in CommonConfigs}

MergeInit ==
    /\ ProxyIdle
    /\ SandboxIdle
    /\ network = <<>>
    /\ validation = [step |-> "none"]
    /\ fs_configs = <<>>
    /\ resolved = [name |-> "none"]
    /\ \E n \in 0..MaxKeys : base_cfg \in ConfigsOfSize(n)
    /\ \E n \in 0..MaxKeys : override_cfg \in ConfigsOfSize(n)
    /\ merged = [done |-> FALSE]
    /\ loaded = [done |-> FALSE]

\* ConfigLoader::merge_configs(base_cfg, override_cfg)
MergeConfigs ==
    /\ ~merged.done
    /\ merged' = [done |-> TRUE, config |-> merge_configs(base_cfg, override_cfg)]
    /\ UNCHANGED <<ovars, network, validation, fs_configs, resolved, base_cfg, override_cfg,
                   loaded>>

\* ConfigLoader::load_with_priority with base_cfg built in and each of the user,
\* project and explicit files absent, unreadable, or holding override_cfg.
LoadWithPriority(user, project, explicit) ==
    /\ ~loaded.done
    /\ loaded' = [done |-> TRUE, res |-> load_with_priority(base_cfg, user, project, explicit)]
    /\ UNCHANGED <<ovars, network, validation, fs_configs, resolved, base_cfg, override_cfg,
                   merged>>

MergeNext ==
    \/ MergeConfigs
    \/ \E user, project, explicit \in {None, Some(Unreadable), Some(override_cfg)} :
          LoadWithPriority(user, project, explicit)

MergeSpec == MergeInit /\ [][MergeNext]_vars


(***************************************************************************)
(* The launcher: setup_policy (bwrap-core/src/policy.rs),                  *)
(* determine_network_mode (network.rs), create_proxy_task (proxy.rs) and   *)
(* SandboxBuilder::build (sandbox.rs). The tool and the target directory   *)
(* exist, and the groups every policy names exist.                         *)
(***************************************************************************)
\* resolver.rs: resolve_policy
resolve_policy(conf, name) ==
    IF ContainsKey(conf.policy.policies, name)
    THEN [ok |-> TRUE, policy |-> Get(conf.policy.policies, name)]
    ELSE Err("ConfigError", <<"Policy not found", name>>)

\* Policy::default()
DefaultPolicy ==
    [description |-> None, filesystem |-> None,
     network |-> NetworkPolicy("Proxy", "Deny", <<>>, <<>>, <<>>)]

\* NetworkMode of the sandbox (config/sandbox.rs): Enabled, Disabled or Filtered{..}
Mode(kind, policy_name, learning_mode) ==
    [kind |-> kind, policy_name |-> policy_name, learning_mode |-> learning_mode]
Enabled == Mode("Enabled", None, None)
Disabled == Mode("Disabled", None, None)
Filtered(policy_name, learning_mode) == Mode("Filtered", Some(policy_name), learning_mode)

\* create_proxy_task: the error of a policy that does not resolve, else the daemon
\* task it spawns: with an engine only for a policy of network mode Proxy, with a
\* recorder when there is a learning output.
create_proxy_task(conf, policy_name, learning_output, learning_mode) ==
    LET resolved_policy == resolve_policy(conf, policy_name)
    IN  IF ~resolved_policy.ok THEN [ok |-> FALSE, spawned |-> <<>>]
        ELSE [ok |-> TRUE,
              spawned |-> << [policy_name |-> policy_name,
                              policy_engine |->
                                  resolved_policy.policy.network.network = "Proxy",
                              learning_recorder |-> IsSome(learning_output),
                              learning_mode |-> learning_mode] >>]

determine_network_mode(common, conf) ==
    IF common.policy = Some("lockdown")
    THEN [ok |-> TRUE, mode |-> Disabled, spawned |-> <<>>]
    ELSE IF IsSome(common.policy) \/ IsSome(common.learn) \/ IsSome(common.learn_deny)
    THEN LET policy_name ==
                 IF IsSome(common.learn) THEN "open"
                 ELSE IF IsSome(common.learn_deny)
                      THEN (IF IsSome(common.policy) THEN Unwrap(common.policy) ELSE "deny")
                 ELSE (IF IsSome(common.policy) THEN Unwrap(common.policy) ELSE "default")
             learning_mode ==
                 IF IsSome(common.learn) THEN Some("learn")
                 ELSE IF IsSome(common.learn_deny) THEN Some("learn_deny") ELSE None
             learning_output ==
                 IF IsSome(common.learn) THEN common.learn
                 ELSE IF IsSome(common.learn_deny) THEN common.learn_deny ELSE None
             task == create_proxy_task(conf, policy_name, learning_output, learning_mode)
         IN  IF ~task.ok THEN [ok |-> FALSE, mode |-> Disabled, spawned |-> <<>>]
             ELSE [ok |-> TRUE, mode |-> Filtered(policy_name, learning_mode),
                   spawned |-> task.spawned]
    ELSE IF common.no_network THEN [ok |-> TRUE, mode |-> Disabled, spawned |-> <<>>]
    ELSE [ok |-> TRUE, mode |-> Enabled, spawned |-> <<>>]

\* A setup that looks at the policy and learning flags before --no-network.
setup_network_flags_first(conf, common, policy_name_str, policy) ==
    determine_network_mode(common, conf)

\* setup_policy lines 52-87: the network mode, and the daemon tasks spawned for it.
setup_network(conf, common, policy_name_str, policy) ==
    IF common.no_network THEN [ok |-> TRUE, mode |-> Disabled, spawned |-> <<>>]
    ELSE IF IsSome(common.policy) \/ IsSome(common.learn) \/ IsSome(common.learn_deny)
    THEN determine_network_mode(common, conf)
    ELSE IF policy.network.network = "Open"
    THEN [ok |-> TRUE, mode |-> Enabled, spawned |-> <<>>]
    ELSE IF policy.network.network = "Disabled"
    THEN [ok |-> TRUE, mode |-> Disabled, spawned |-> <<>>]
    ELSE LET task == create_proxy_task(conf, policy_name_str, None, None)
         IN  IF ~task.ok THEN [ok |-> FALSE, mode |-> Disabled, spawned |-> <<>>]
             ELSE [ok |-> TRUE, mode |-> Filtered(policy_name_str, None),
                   spawned |-> task.spawned]

setup_policy(conf, common, default_policy) ==
    LET policy_name_str ==
            IF IsSome(common.policy) THEN Unwrap(common.policy) ELSE default_policy
        found == resolve_policy(conf, policy_name_str)
        policy == IF found.ok THEN found.policy ELSE DefaultPolicy
        fs == IF IsSome(policy.filesystem)
              THEN resolve_filesystem_config(conf.filesystem.configs,
                                             Unwrap(policy.filesystem))
              ELSE Err("none", "none")
        filesystem_spec == IF fs.ok THEN fs.spec ELSE DefaultFilesystemSpec
        net == setup_network(conf, common, policy_name_str, policy)
    IN  IF ~net.ok THEN [ok |-> FALSE, spawned |-> net.spawned]
        ELSE [ok |-> TRUE, spawned |-> net.spawned, policy |-> policy,
              policy_name |-> policy_name_str, filesystem_spec |-> filesystem_spec,
              network_mode |-> net.mode]

\* MountPoint::to_args
MountArgs(flag, source, target) == <<flag, source, target>>

\* `if let NetworkMode::Filtered { .. } = &self.config.network_mode`
IsFiltered(network_mode) == network_mode.kind = "Filtered"

\* mount_bw_relay: the relay binary is looked for and mounted whatever the mode.
mount_bw_relay(relay_found) ==
    IF relay_found
    THEN [ok |-> TRUE, mounts |-> MountArgs("--ro-bind", "relay_path", "/bw-relay")]
    ELSE Err("CliNotFound", "bw-relay")

\* setup_mounts, in its order: /tmp, /etc, the system directories, the target
\* directory, the relay, /proc and /dev, the daemon socket in Filtered mode.
setup_mounts(network_mode, relay_found) ==
    LET relay_mount == mount_bw_relay(relay_found)
    IN  IF ~relay_mount.ok THEN relay_mount
        ELSE [ok |-> TRUE,
              mounts |->
                  MountArgs("--bind", "tmp_export_dir", "/tmp")
                  \o <<"--tmpfs", "/etc", "--remount-ro", "/etc">>
                  \o MountArgs("--ro-bind", "/usr", "/usr")
                  \o MountArgs("--symlink", "/usr/bin", "/bin")
                  \o MountArgs("--bind", "target_dir", "target_dir")
                  \o relay_mount.mounts
                  \o <<"--proc", "/proc">>
                  \o MountArgs("--dev-bind", "/dev", "/dev")
                  \o (IF IsFiltered(network_mode)
                      THEN MountArgs("--bind", "proxy_socket", "/proxy.sock")
                      ELSE <<>>)]

\* The namespace flag that is never right.
NetFlagShared(network_mode) == "--share-net"

\* build_command lines 371-376
NetFlag(network_mode) ==
    IF network_mode.kind = "Enabled" THEN "--share-net" ELSE "--unshare-net"

\* build_command lines 392-416: the command bubblewrap runs.
TargetCommand(network_mode, shell, tool) ==
    LET target == IF shell THEN <<"/bin/sh", "-i">> \o tool.cli_args
                  ELSE <<tool.cli_path>> \o tool.default_args \o tool.cli_args
    IN  <<"/bw-relay">>
        \o (IF IsFiltered(network_mode) THEN <<"--socket", "/proxy.sock">> ELSE <<>>)
        \o <<"--">> \o target

\* build_command: the options of bubblewrap, then the command it runs.
build_command(network_mode, shell, tool, mounts) ==
    [options |-> <<"--die-with-parent", "--unshare-pid", "--unshare-ipc",
                   NetFlag(network_mode)>>
                 \o mounts
                 \o <<"--chdir", "target_dir", "--clearenv", "--setenv", "HOME", "home">>,
     command |-> TargetCommand(network_mode, shell, tool)]

\* SandboxBuilder::build
build(network_mode, shell, tool, relay_found) ==
    LET m == setup_mounts(network_mode, relay_found)
    IN  IF ~m.ok THEN m
        ELSE [ok |-> TRUE, cmd |-> build_command(network_mode, shell, tool, m.mounts)]

(***************************************************************************)
(* The launcher runs: the configuration, the arguments and the tool.       *)
(***************************************************************************)
NetworkModes == {"Open", "Disabled", "Proxy"}

\* The policy named n: `open` is open, `lockdown` disabled, a tool's own policy has
\* the network mode tool_mode; all name the filesystem spec fsref.
PolicyNamed(n, tool_mode, fsref) ==
    [description |-> None, filesystem |-> fsref,
     network |-> NetworkPolicy(IF n = "open" THEN "Open"
                               ELSE IF n = "lockdown" THEN "Disabled"
                               ELSE IF n = "claude" THEN tool_mode ELSE "Proxy",
                               "Deny", <<>>, <<>>, <<>>)]

PolicyNameSeq == <<"open", "lockdown", "claude", "default", "deny">>

\* The policies of PolicyNameSeq picked by `present`, in that order.
RECURSIVE PoliciesFrom(_, _, _, _)
PoliciesFrom(i, present, tool_mode, fsref) ==
    IF i > Len(PolicyNameSeq) THEN <<>>
    ELSE (IF PolicyNameSeq[i] \in present
          THEN << <<PolicyNameSeq[i], PolicyNamed(PolicyNameSeq[i], tool_mode, fsref)>> >>
          ELSE <<>>)
         \o PoliciesFrom(i + 1, present, tool_mode, fsref)

\* Filesystem specs: a, b extends a, and c that extends itself.
LaunchFilesystem ==
    << <<"a", FilesystemSpec("a", <<>>)>>, <<"b", FilesystemSpec("b", <<"a">>)>>,
       <<"c", FilesystemSpec("c", <<"c">>)>> >>

FsRefs == {None, Some("a"), Some("b"), Some("c"), Some("z")}

LaunchConfig(present, tool_mode, fsref) ==
    [given |-> TRUE,
     policy |-> [policies |-> PoliciesFrom(1, present, tool_mode, fsref)],
     filesystem |-> [configs |-> LaunchFilesystem]]

\* --learn and --learn-deny conflict (args.rs:64).
LearnFlags == {<<None, None>>, <<Some("out.toml"), None>>, <<None, Some("out.toml")>>}

CommonArgs(no_network, policy, learn, shell, cli_args) ==
    [given |-> TRUE, no_network |-> no_network, policy |-> policy, learn |-> learn[1],
     learn_deny |-> learn[2], shell |-> shell, cli_args |-> cli_args]

CliArgs == {<<>>, <<"-p", "hi">>, <<"--share-net">>}

\* ToolConfig of bw-claude
Tool(cli_args) ==
    [cli_path |-> "tool-cli-path", default_args |-> <<"--dangerously-skip-permissions">>,
     cli_args |-> cli_args]

DefaultPolicyName == "claude"

LaunchInit ==
    /\ ProxyIdle
    /\ ConfigIdle
    /\ RelayIdle /\ TmpIdle /\ ExpandIdle /\ SessionIdle
    /\ \E present \in SUBSET {"open", "lockdown", "claude", "default"},
          tool_mode \in NetworkModes, fsref \in FsRefs :
          config = LaunchConfig(present \cup (IF "default" \in present THEN {"deny"} ELSE {}),
                                tool_mode, fsref)
    /\ \E no_network \in BOOLEAN, policy \in {None} \cup {Some(n) : n \in {"open", "lockdown", "claude"}},
          learn \in LearnFlags, shell \in BOOLEAN, cli_args \in CliArgs :
          args = CommonArgs(no_network, policy, learn, shell, cli_args)
    /\ setup = [done |-> FALSE]
    /\ argv = [done |-> FALSE]

lovars == <<pe, pvars, dvars, cvars, relay, clock, tmp_dirs, runs, expand, recorder, waiter>>

\* setup_policy(&config, &common, "claude")
SetupPolicy ==
    /\ ~setup.done
    /\ setup' = [done |-> TRUE, res |-> setup_policy(config, args, DefaultPolicyName)]
    /\ UNCHANGED <<lovars, args, config, argv>>

\* SandboxBuilder::new(config, filesystem_spec)?.build() with the network mode of the
\* policy setup; the relay binary is found or not.
Build(relay_found) ==
    /\ setup.done /\ setup.res.ok
    /\ ~argv.done
    /\ argv' = [done |-> TRUE,
                res |-> build(setup.res.network_mode, args.shell, Tool(args.cli_args),
                              relay_found)]
    /\ UNCHANGED <<lovars, args, config, setup>>

LaunchNext ==
    \/ SetupPolicy
    \/ \E relay_found \in BOOLEAN : Build(relay_found)

LaunchSpec == LaunchInit /\ [][LaunchNext]_vars

(***************************************************************************)
(* The export directory of a launcher run (sandbox.rs):                    *)
(* create_tmp_export_dir, the module-local uuid and Drop for Sandbox.      *)
(***************************************************************************)
MaxRuns == 2          \* launcher runs
MaxClock == 6         \* the last instant of the clock

\* uuid::Uuid::to_string is format!("{:x}", now) of the nanosecond clock, and
\* `.chars().take(8)` keeps its leading digits: the identifier changes once every
\* IdWindow instants (16^8 ns of the 16-digit timestamps of this era; 3 here).
IdWindow == 3

\* create_tmp_export_dir lines 82-86
session_id(now) == now \div IdWindow

\* PathBuf::from("/tmp").join(format!("bw-{}-{}", tool_name, session_id))
export_dir(tool_name, now) == <<"/tmp", "bw", tool_name, session_id(now)>>

ToolNames == {"claude", "gemini"}

NoRun == [st |-> "none", tool_name |-> "none", tmp_export_dir |-> None]

TmpInit ==
    /\ ProxyIdle
    /\ ConfigIdle
    /\ LaunchIdle /\ RelayIdle /\ ExpandIdle /\ SessionIdle
    /\ clock = 0
    /\ tmp_dirs = {}
    /\ runs = [r \in 1..MaxRuns |-> NoRun]

tovars == <<pe, pvars, dvars, cvars, args, config, setup, argv, relay, expand, recorder,
            waiter>>

\* Time passes.
Tick ==
    /\ clock < MaxClock
    /\ clock' = clock + 1
    /\ UNCHANGED <<tovars, tmp_dirs, runs>>

\* SandboxBuilder::build of run r, for its create_tmp_export_dir: create_dir_all
\* succeeds whether or not the directory is there already. No two runs read the
\* same instant from the clock.
BuildSandbox(r, tool_name) ==
    /\ runs[r].st = "none"
    /\ clock < MaxClock
    /\ clock' = clock + 1
    /\ tmp_dirs' = tmp_dirs \cup {export_dir(tool_name, clock)}
    /\ runs' = [runs EXCEPT ![r] = [st |-> "running", tool_name |-> tool_name,
                                    tmp_export_dir |-> Some(export_dir(tool_name, clock))]]
    /\ UNCHANGED tovars

\* Drop for Sandbox of run r: remove_dir_all(tmp_dir)
DropSandbox(r) ==
    /\ runs[r].st = "running"
    /\ tmp_dirs' = tmp_dirs \ {Unwrap(runs[r].tmp_export_dir)}
    /\ runs' = [runs EXCEPT ![r].st = "dropped"]
    /\ UNCHANGED <<tovars, clock>>

TmpNext ==
    \/ Tick
    \/ \E r \in 1..MaxRuns, tool_name \in ToolNames : BuildSandbox(r, tool_name)
    \/ \E r \in 1..MaxRuns : DropSandbox(r)

TmpSpec == TmpInit /\ [][TmpNext]_vars

(***************************************************************************)
(* bw-relay: parse_connect_request (bw-relay/src/http_connect.rs) and the  *)
(* HTTP accept loop with handle_http_client (bw-relay/src/main.rs). What a *)
(* client sends is a list of segments, each the bytes one read of the      *)
(* socket returns; after the last one the client has shut down its side.   *)
(***************************************************************************)
MaxClients == 2       \* connections the relay accepts

\* `if headers.len() > 16384`, and the BufReader capacity: scaled to the requests here
HeaderLimit == 16

EndsWith(s, suffix) ==
    Len(suffix) <= Len(s) /\ SubSeq(s, Len(s) - Len(suffix) + 1, Len(s)) = suffix

\* Position of the first ch in s, 0 when there is none.
FirstIndex(s, ch) ==
    IF \E i \in 1..Len(s) : s[i] = ch
    THEN CHOOSE i \in 1..Len(s) : s[i] = ch /\ \A j \in 1..(i - 1) : s[j] # ch
    ELSE 0

LastIndex(s, ch) ==
    IF \E i \in 1..Len(s) : s[i] = ch
    THEN CHOOSE i \in 1..Len(s) : s[i] = ch /\ \A j \in (i + 1)..Len(s) : s[j] # ch
    ELSE 0

\* BufReader::read_until(b'\n', &mut line): bytes up to and including the next
\* newline, refilling the buffer with one read of the socket each time it is empty;
\* at end of stream what has been collected.
RECURSIVE read_until(_, _, _)
read_until(buf, segs, line) ==
    IF buf = <<>>
    THEN (IF segs = <<>> THEN [line |-> line, buf |-> buf, segs |-> segs]
          ELSE read_until(Head(segs), Tail(segs), line))
    ELSE LET i == FirstIndex(buf, NL)
         IN  IF i = 0 THEN read_until(<<>>, segs, line \o buf)
             ELSE [line |-> line \o SubSeq(buf, 1, i),
                   buf |-> SubSeq(buf, i + 1, Len(buf)), segs |-> segs]

\* str::lines().next(): the first line without its line ending
FirstLine(s) ==
    LET i == FirstIndex(s, NL)
        l == IF i = 0 THEN s ELSE SubSeq(s, 1, i - 1)
    IN  IF l # <<>> /\ l[Len(l)] = CR THEN SubSeq(l, 1, Len(l) - 1) ELSE l

\* str::lines().skip(1)
RECURSIVE LinesAfterFirst(_)
LinesAfterFirst(s) ==
    LET i == FirstIndex(s, NL)
    IN  IF i = 0 \/ i = Len(s) THEN <<>>
        ELSE LET rest == SubSeq(s, i + 1, Len(s)) IN <<FirstLine(rest)>> \o LinesAfterFirst(rest)

\* host_port.rsplit_once(':') and port_str.parse::<u16>()
HostPort(host_port) ==
    LET i == LastIndex(host_port, ":")
        port == ParsePort(SubSeq(host_port, i + 1, Len(host_port)))
    IN  IF i = 0 THEN Err("parse", "Invalid host:port format")
        ELSE IF ~IsSome(port) THEN Err("parse", "Invalid port number")
        ELSE [ok |-> TRUE, host |-> SubSeq(host_port, 1, i - 1), port |-> Unwrap(port)]

\* parse_http_request for a request in origin form: the first Host header, with
\* port 80 when it names none.
RECURSIVE HostHeader(_)
HostHeader(lines) ==
    IF lines = <<>> THEN Err("parse", "Cannot determine host and port")
    ELSE IF StartsWith(Head(lines), <<"Host:">>)
    THEN LET host_value == Trim(Tail(Head(lines)))
             hp == HostPort(host_value)
         IN  IF hp.ok THEN hp ELSE [ok |-> TRUE, host |-> host_value, port |-> 80]
    ELSE HostHeader(Tail(lines))

parse_request_line(request) ==
    LET parts == SplitWhitespace(FirstLine(request))
    IN  IF Len(parts) < 2 THEN Err("parse", "Invalid request format")
        ELSE IF parts[1] = <<"CONNECT">> THEN HostPort(parts[2])
        ELSE HostHeader(LinesAfterFirst(request))

\* The loop of parse_connect_request, then parse_request_line: the request, the
\* bytes left in the BufReader (buffered_extra) and what the socket still holds.
RECURSIVE parse_connect_request(_, _, _)
parse_connect_request(buf, segs, headers) ==
    LET r == read_until(buf, segs, <<>>)
        h == headers \o r.line
    IN  IF Len(r.line) = 0 THEN Err("closed", "Connection closed before request received")
        ELSE IF EndsWith(h, <<CR, NL, CR, NL>>)
        THEN LET req_type == parse_request_line(h)
             IN  IF ~req_type.ok THEN req_type
                 ELSE [ok |-> TRUE, host |-> req_type.host, port |-> req_type.port,
                       headers |-> h, buffered_extra |-> r.buf, stream |-> r.segs]
        ELSE IF Len(h) > HeaderLimit THEN Err("overflow", "HTTP headers too large")
        ELSE parse_connect_request(r.buf, r.segs, h)

\* format!("{}", port)
PortText(port) == IF port = 443 THEN "443" ELSE IF port = 80 THEN "80" ELSE "70000"

\* format!("CONNECT {} {}\n", host, port)
ProxyRequest(host, port) == <<"CONNECT", SP>> \o host \o <<SP, PortText(port), NL>>

\* forward_to_proxy_socks5 up to the handshake: "uds" when UnixStream::connect
\* fails, "reply" when the daemon's answer is empty or does not start with OK,
\* else "ok".
Handshake(uds_ok, response) ==
    IF ~uds_ok THEN "uds"
    ELSE IF Len(response) = 0 THEN "reply"
    ELSE IF StartsWith(response, <<"OK">>) THEN "ok"
    ELSE "reply"

\* handle_http_client line 307: `parse_connect_request(&mut client).await?` returns
\* the error to the spawned task, which logs it; nothing is written to the client.
ParseFailureReply(parsed) == <<>>

(***************************************************************************)
(* Clients of the relay and answers of the daemon.                         *)
(***************************************************************************)
RequestHead(host_port) == <<"CONNECT", SP>> \o host_port \o <<SP, "HTTP/1.1", CR, NL>>
ConnectAC == RequestHead(HostAC \o <<":", "443">>) \o <<CR, NL>>

ClientScripts ==
    { <<ConnectAC>>,                               \* the request and nothing more
      <<ConnectAC, <<"x", "y">>>>,                 \* data sent after the request
      <<ConnectAC \o <<"x">>, <<"y">>>>,           \* data coalesced with the request
      <<ConnectAC \o <<"x", "y">>>>,
      <<SubSeq(ConnectAC, 1, 5), SubSeq(ConnectAC, 6, Len(ConnectAC)) \o <<"x">>>>,
      <<RequestHead(HostAC \o <<":", "443">>) \o <<"h", CR, NL, CR, NL>>>>,  \* a header
      <<<<"x", CR, NL, CR, NL>>>>,                 \* no method and target
      <<RequestHead(HostAC) \o <<CR, NL>>>>,       \* no port
      <<RequestHead(HostAC \o <<":", "70000">>) \o <<CR, NL>>>>,
      <<>>,                                        \* connect and close
      <<RequestHead(HostAC \o <<":", "443">>) \o <<"h", CR, NL, "h", CR, NL, CR, NL>>>>,
      <<<<"GET", SP, "/", SP, "HTTP/1.1", CR, NL, "Host:", SP, "d", CR, NL, CR, NL>>>> }

ProxyResponses == {<<"OK", NL>>, <<"BLOCKED", NL>>, <<"FAIL", NL>>, <<"ERROR", NL>>, <<>>}

NoClient ==
    [st |-> "none", sent |-> <<>>, stream |-> <<>>, host |-> <<>>, port |-> 0,
     to_client |-> <<>>, uds |-> <<>>, tunnelled |-> <<>>, cause |-> "none"]

RelayInit ==
    /\ ProxyIdle
    /\ ConfigIdle
    /\ LaunchIdle /\ TmpIdle /\ ExpandIdle /\ SessionIdle
    /\ \E has_target \in BOOLEAN :
          relay = [st |-> "spawned", main |-> "started", has_target |-> has_target,
                   refused |-> FALSE, accepted |-> 0,
                   clients |-> [i \in 1..MaxClients |-> NoClient]]

rovars == <<pe, pvars, dvars, cvars, args, config, setup, argv, clock, tmp_dirs, runs,
            expand, recorder, waiter>>

\* The process is there: std::process::exit has not been called.
RelayRuns == relay.main # "exited"

\* run_http_server in its task: TcpListener::bind succeeds.
BindListener ==
    /\ RelayRuns /\ relay.st = "spawned"
    /\ relay' = [relay EXCEPT !.st = "listening"]
    /\ UNCHANGED rovars

\* TcpListener::bind fails and run_http_server returns the error. With a target,
\* main never looks at the handle; without one its select! returns the error.
BindListenerFails ==
    /\ RelayRuns /\ relay.st = "spawned"
    /\ relay' = [relay EXCEPT !.st = "failed",
                              !.main = IF relay.has_target THEN @ ELSE "exited"]
    /\ UNCHANGED rovars

\* main, lines 70-81: the 100 ms sleep is over and the target is started.
ExecuteTarget ==
    /\ relay.main = "started" /\ relay.has_target
    /\ relay' = [relay EXCEPT !.main = "target"]
    /\ UNCHANGED rovars

\* The target connects to 127.0.0.1:<http-port> and nothing listens there.
TargetConnectRefused ==
    /\ relay.main = "target" /\ relay.st # "listening"
    /\ relay' = [relay EXCEPT !.refused = TRUE]
    /\ UNCHANGED rovars

\* main, lines 83-87: the target has exited, the servers are aborted, exit.
TargetExits ==
    /\ relay.main = "target"
    /\ relay' = [relay EXCEPT !.main = "exited",
                              !.st = IF @ = "failed" THEN @ ELSE "aborted"]
    /\ UNCHANGED rovars

\* run_http_server: listener.accept() and tokio::spawn of handle_http_client, for
\* a connection of the target or, without a target, of any local client.
AcceptClient(script) ==
    /\ RelayRuns /\ relay.st = "listening"
    /\ relay.main = "target" \/ ~relay.has_target
    /\ relay.accepted < MaxClients
    /\ relay' = [relay EXCEPT !.accepted = @ + 1,
                              !.clients[relay.accepted + 1] =
                                  [NoClient EXCEPT !.st = "accepted", !.sent = script,
                                                   !.stream = script]]
    /\ UNCHANGED rovars

\* handle_http_client: parse_connect_request, of which it keeps host and port
ParseConnectRequest(i) ==
    LET c == relay.clients[i]
        parsed == parse_connect_request(<<>>, c.stream, <<>>)
    IN  /\ RelayRuns
        /\ c.st = "accepted"
        /\ relay' = [relay EXCEPT !.clients[i] =
              IF parsed.ok
              THEN [c EXCEPT !.st = "parsed", !.host = parsed.host, !.port = parsed.port,
                             !.stream = parsed.stream]
              ELSE [c EXCEPT !.st = "closed", !.cause = parsed.kind, !.stream = <<>>,
                             !.to_client = ParseFailureReply(parsed)]]
        /\ UNCHANGED rovars

\* handle_http_client lines 312-322 with forward_to_proxy_socks5 up to the tunnel
ForwardToProxy(i, uds_ok, response) ==
    LET c == relay.clients[i]
        h == Handshake(uds_ok, response)
    IN  /\ RelayRuns
        /\ c.st = "parsed"
        /\ relay' = [relay EXCEPT !.clients[i] =
              IF h = "ok"
              THEN [c EXCEPT !.st = "tunnel", !.uds = ProxyRequest(c.host, c.port),
                             !.to_client = <<"200">>]
              ELSE [c EXCEPT !.st = "closed", !.cause = h, !.stream = <<>>,
                             !.uds = IF uds_ok THEN ProxyRequest(c.host, c.port) ELSE <<>>,
                             !.to_client = <<"502">>]]
        /\ UNCHANGED rovars

\* copy_bidirectional, client to daemon: one read of the client socket, written on
TunnelCopy(i) ==
    LET c == relay.clients[i]
    IN  /\ RelayRuns
        /\ c.st = "tunnel" /\ c.stream # <<>>
        /\ relay' = [relay EXCEPT !.clients[i] =
              [c EXCEPT !.tunnelled = @ \o Head(c.stream), !.stream = Tail(c.stream)]]
        /\ UNCHANGED rovars

\* copy_bidirectional returns at the client's end of stream
TunnelCloses(i) ==
    LET c == relay.clients[i]
    IN  /\ RelayRuns
        /\ c.st = "tunnel" /\ c.stream = <<>>
        /\ relay' = [relay EXCEPT !.clients[i] = [c EXCEPT !.st = "closed", !.cause = "done"]]
        /\ UNCHANGED rovars

\* copy_bidirectional returns an error: `.await?` hands it to handle_http_client,
\* whose Err arm sends 502 (lines 316-321). The write reaches the client unless
\* it was the client's socket that failed.
RelayTunnelFails(i, side) ==
    LET c == relay.clients[i]
    IN  /\ RelayRuns
        /\ c.st = "tunnel"
        /\ relay' = [relay EXCEPT !.clients[i] =
              [c EXCEPT !.st = "closed", !.cause = "io", !.stream = <<>>,
                        !.to_client = IF side = "proxy" THEN Append(@, "502") ELSE @]]
        /\ UNCHANGED rovars

RelayNext ==
    \/ BindListener
    \/ BindListenerFails
    \/ ExecuteTarget
    \/ TargetConnectRefused
    \/ TargetExits
    \/ \E script \in ClientScripts : AcceptClient(script)
    \/ \E i \in 1..MaxClients : ParseConnectRequest(i)
    \/ \E i \in 1..MaxClients, uds_ok \in BOOLEAN, response \in ProxyResponses :
          ForwardToProxy(i, uds_ok, response)
    \/ \E i \in 1..MaxClients : TunnelCopy(i)
    \/ \E i \in 1..MaxClients : TunnelCloses(i)
    \/ \E i \in 1..MaxClients, side \in {"client", "proxy"} : RelayTunnelFails(i, side)

RelaySpec == RelayInit /\ [][RelayNext]_vars

(***************************************************************************)
(* PolicyEngine::from_policy: the engine of a named policy, built by       *)
(* expanding the groups the policy names.                                  *)
(***************************************************************************)
\* A HostGroup with the fields expand_group reads.
RangedHostGroup(hosts, hosts_deny, ipv4_ranges, ipv6_ranges, groups) ==
    [hosts |-> hosts, hosts_deny |-> hosts_deny, ipv4_ranges |-> ipv4_ranges,
     ipv6_ranges |-> ipv6_ranges, groups |-> groups]

\* A Policy with the fields from_policy and effective_allow_groups read.
FilterPolicy(allow_groups, deny_groups, groups, allow_all, mode) ==
    [allow_groups |-> allow_groups, deny_groups |-> deny_groups, groups |-> groups,
     allow_all |-> allow_all, mode |-> mode]

\* An effective_allow_groups that has forgotten the old `groups` field.
effective_allow_groups_new_only(p) == p.allow_groups

\* Policy::effective_allow_groups
effective_allow_groups(p) == IF p.allow_groups # <<>> THEN p.allow_groups ELSE p.groups

add_pattern(m, pattern) == [m EXCEPT !.patterns = Append(@, pattern)]
add_ipv4_range(m, net) == [m EXCEPT !.ipv4_ranges = Append(@, net)]
add_ipv6_range(m, net) == [m EXCEPT !.ipv6_ranges = Append(@, net)]

\* range_str.parse::<Ipv4Net>() and ::<Ipv6Net>()
ParseIpv4Net(range_str) == IF range_str = "0.0.0.0/1" THEN Some(Net4) ELSE None
ParseIpv6Net(range_str) == IF range_str = "::/1" THEN Some(Net6) ELSE None

\* `for host in &group.hosts { matcher.add_pattern(host) }`
RECURSIVE AddPatterns(_, _)
AddPatterns(hosts, m) ==
    IF hosts = <<>> THEN m ELSE AddPatterns(Tail(hosts), add_pattern(m, Head(hosts)))

\* The two range loops of expand_group: each range is parsed and added, and the
\* first one that does not parse ends the expansion.
RECURSIVE AddIpv4Ranges(_, _)
AddIpv4Ranges(ranges, m) ==
    IF ranges = <<>> THEN [res |-> Ok, matcher |-> m]
    ELSE LET net == ParseIpv4Net(Head(ranges))
         IN  IF ~IsSome(net) THEN [res |-> Err("Network", Head(ranges)), matcher |-> m]
             ELSE AddIpv4Ranges(Tail(ranges), add_ipv4_range(m, Unwrap(net)))

RECURSIVE AddIpv6Ranges(_, _)
AddIpv6Ranges(ranges, m) ==
    IF ranges = <<>> THEN [res |-> Ok, matcher |-> m]
    ELSE LET net == ParseIpv6Net(Head(ranges))
         IN  IF ~IsSome(net) THEN [res |-> Err("Network", Head(ranges)), matcher |-> m]
             ELSE AddIpv6Ranges(Tail(ranges), add_ipv6_range(m, Unwrap(net)))

\* expand_group, on (matcher, processed): what they are afterwards and the result.
\* ExpandEach is the loop `for name in names { Self::expand_group(name, ..)?; }`
\* of expand_group's children and of from_policy's two lists.
RECURSIVE expand_group(_, _, _, _)
RECURSIVE ExpandEach(_, _, _, _)
\* An expand_group that hands back the processed set it was given: what the groups
\* below it marked is forgotten when it returns.
expand_group_forgetful(group_name, groups, matcher, processed) ==
    IF group_name \in processed
    THEN [res |-> Ok, matcher |-> matcher, processed |-> processed]
    ELSE IF ~ContainsKey(groups, group_name)
    THEN [res |-> Err("GroupNotFound", group_name), matcher |-> matcher,
          processed |-> processed]
    ELSE LET host_group == Get(groups, group_name)
             v4 == AddIpv4Ranges(host_group.ipv4_ranges, AddPatterns(host_group.hosts, matcher))
             v6 == AddIpv6Ranges(host_group.ipv6_ranges, v4.matcher)
         IN  IF ~v4.res.ok
             THEN [res |-> v4.res, matcher |-> v4.matcher, processed |-> processed]
             ELSE IF ~v6.res.ok
             THEN [res |-> v6.res, matcher |-> v6.matcher, processed |-> processed]
             ELSE [ExpandEach(host_group.groups, groups, v6.matcher,
                              processed \cup {group_name}) EXCEPT !.processed = processed]

expand_group(group_name, groups, matcher, processed) ==
    IF group_name \in processed
    THEN [res |-> Ok, matcher |-> matcher, processed |-> processed]
    ELSE LET inserted == processed \cup {group_name}
         IN  IF ~ContainsKey(groups, group_name)
             THEN [res |-> Err("GroupNotFound", group_name), matcher |-> matcher,
                   processed |-> inserted]
             ELSE LET host_group == Get(groups, group_name)
                      v4 == AddIpv4Ranges(host_group.ipv4_ranges,
                                          AddPatterns(host_group.hosts, matcher))
                      v6 == AddIpv6Ranges(host_group.ipv6_ranges, v4.matcher)
                  IN  IF ~v4.res.ok
                      THEN [res |-> v4.res, matcher |-> v4.matcher, processed |-> inserted]
                      ELSE IF ~v6.res.ok
                      THEN [res |-> v6.res, matcher |-> v6.matcher, processed |-> inserted]
                      ELSE ExpandEach(host_group.groups, groups, v6.matcher, inserted)

ExpandEach(names, groups, matcher, processed) ==
    IF names = <<>> THEN [res |-> Ok, matcher |-> matcher, processed |-> processed]
    ELSE LET r == expand_group(Head(names), groups, matcher, processed)
         IN  IF ~r.res.ok THEN r ELSE ExpandEach(Tail(names), groups, r.matcher, r.processed)

\* PolicyEngine::from_policy
from_policy(policy_name, network_config) ==
    IF ~ContainsKey(network_config.policies, policy_name)
    THEN Err("PolicyNotFound", policy_name)
    ELSE LET p == Get(network_config.policies, policy_name)
             allowed == ExpandEach(effective_allow_groups(p), network_config.groups,
                                   NewMatcher, {})
             \* processed.clear()
             denied == ExpandEach(p.deny_groups, network_config.groups, NewMatcher, {})
         IN  IF p.allow_all
             THEN [ok |-> TRUE, engine |-> Engine(NewMatcher, NewMatcher, p.mode, TRUE)]
             ELSE IF ~allowed.res.ok THEN allowed.res
             ELSE IF ~denied.res.ok THEN denied.res
             ELSE [ok |-> TRUE,
                   engine |-> Engine(allowed.matcher, denied.matcher, p.mode, FALSE)]

(***************************************************************************)
(* Networks and policies an engine is built from: groups a, b and c that   *)
(* refer to each other (to a group twice over, in a circle, to a group     *)
(* that is missing), with allow and deny patterns and ranges.              *)
(***************************************************************************)
ExpandGroupsA ==
    { RangedHostGroup(h, hd, <<>>, <<>>, g) :
        h \in {<<>>, <<HostAC>>}, hd \in {<<>>, <<HostBC>>},
        g \in {<<>>, <<"b">>, <<"b", "c">>, <<"d">>} }
ExpandGroupsB ==
    { RangedHostGroup(<<PatStarBC>>, <<>>, <<>>, v6, g) :
        v6 \in {<<>>, <<"::/1">>}, g \in {<<>>, <<"c">>, <<"a">>} }
ExpandGroupsC ==
    { RangedHostGroup(<<PatStarC, HostAC>>, hd, v4, <<>>, <<>>) :
        hd \in {<<>>, <<HostD>>}, v4 \in {<<>>, <<"0.0.0.0/1">>, <<"bad">>} }
FilterPolicies ==
    { FilterPolicy(ag, dg, g, all, mode) :
        ag \in {<<>>, <<"a">>, <<"a", "b">>, <<"c">>}, dg \in {<<>>, <<"c">>, <<"b">>, <<"a", "c">>},
        g \in {<<>>, <<"b">>}, all \in BOOLEAN, mode \in PolicyModes }

ExpandInit ==
    /\ ProxyIdle
    /\ ConfigIdle
    /\ LaunchIdle /\ RelayIdle /\ TmpIdle /\ SessionIdle
    /\ \E a \in ExpandGroupsA, b \in ExpandGroupsB, c \in ExpandGroupsC,
          p \in FilterPolicies, policy_name \in {"p", "q"} :
          expand = [done |-> FALSE, policy_name |-> policy_name,
                    network |-> [groups |-> <<<<"a", a>>, <<"b", b>>, <<"c", c>>>>,
                                 policies |-> <<<<"p", p>>>>]]

eovars == <<pe, pvars, dvars, cvars, args, config, setup, argv, relay, clock, tmp_dirs, runs,
            recorder, waiter>>

FromPolicy ==
    /\ ~expand.done
    /\ expand' = [expand EXCEPT !.done = TRUE] @@
                 [res |-> from_policy(expand.policy_name, expand.network)]
    /\ UNCHANGED eovars

ExpandNext == FromPolicy

ExpandSpec == ExpandInit /\ [][ExpandNext]_vars

(***************************************************************************)
(* The LearningRecorder of bwrap-core (config/learning.rs): a Config       *)
(* behind a mutex, shared by the tasks that record hosts and by the one    *)
(* that flushes it to the output file. The Config is the IndexMap          *)
(* network.groups with the hosts of each group; the file is the list of    *)
(* its [network.groups.<name>] tables.                                     *)
(***************************************************************************)
MaxRecorders == 2     \* tasks that record into the shared recorder
MaxCalls == 3         \* record calls made on the recorder
MaxFlushes == 2       \* flush calls made on the recorder

Recorders == 1..MaxRecorders
FlushTask == MaxRecorders + 1
DeniedName == "learned_session_denied"

\* Mutex::lock returns when no task holds the guard.
MutexFreeAlways(holder) == TRUE
MutexFree(holder) == holder = 0

\* ConfigLoader::load_from_file(&path) as the recorder uses it: the Config of the
\* file, or an empty one when the file is missing or does not parse.
load_or_empty(f) ==
    IF f.exists /\ FileParses(f)
    THEN [i \in 1..Len(f.groups) |-> <<f.groups[i].name, f.groups[i].hosts>>]
    ELSE <<>>

\* toml::to_string_pretty(&*config) followed by fs::write: the file of a Config.
Serialized(groups) ==
    [exists |-> TRUE,
     groups |-> [i \in 1..Len(groups) |-> [name |-> groups[i][1], hosts |-> groups[i][2]]]]

\* groups.entry(name).or_insert_with(|| HostGroup { hosts: Vec::new(), .. })
or_insert(groups, name) ==
    IF ContainsKey(groups, name) THEN groups ELSE Append(groups, <<name, <<>>>>)

HostsOf(groups, name) == IF ContainsKey(groups, name) THEN Get(groups, name) ELSE <<>>

\* group.hosts.push(host)
PushHost(groups, name, host) ==
    [i \in 1..Len(groups) |->
        IF groups[i][1] = name THEN <<name, Append(groups[i][2], host)>> ELSE groups[i]]

RecordIdle == [pc |-> "idle", group |-> "none", host |-> <<>>, found |-> FALSE]
FlushIdle == [pc |-> "idle", buf |-> <<>>, idx |-> 1, seen |-> {}]

\* The Configs the recorder has held while a flush call is running.
Observe(fl, groups) == IF fl.pc = "idle" THEN fl ELSE [fl EXCEPT !.seen = @ \cup {groups}]

\* The output file before the session: missing, with a group of an earlier session,
\* with this session's group, or with one table twice, which does not parse.
OldGroup(hosts) == [name |-> "old", hosts |-> hosts]
ExistingFiles ==
    {[exists |-> FALSE, groups |-> <<>>],
     [exists |-> TRUE, groups |-> <<OldGroup(<<HostAC>>)>>],
     [exists |-> TRUE, groups |-> <<[name |-> SessionName, hosts |-> <<HostAC>>]>>],
     [exists |-> TRUE, groups |-> <<OldGroup(<<HostAC>>), OldGroup(<<HostD>>)>>]}

RecordedHostNames == {HostAC, HostD}

\* with_output_path(name, path), or with_session_name(name) which has no path.
LearnInit ==
    /\ \E f \in ExistingFiles, with_path \in BOOLEAN :
          recorder = [st |-> "shared",
                      groups |-> IF with_path THEN load_or_empty(f) ELSE <<>>,
                      lock |-> 0,
                      output_path |-> with_path,
                      file |-> f,
                      file0 |-> f,
                      tasks |-> [t \in Recorders |-> RecordIdle],
                      flush |-> FlushIdle,
                      calls |-> 0,
                      flushes |-> 0,
                      loads |-> 0,
                      written |-> FALSE,
                      done |-> {}]
    /\ ProxyIdle
    /\ ConfigIdle
    /\ LaunchIdle /\ RelayIdle /\ TmpIdle /\ ExpandIdle /\ TaskIdle

novars == <<pe, pvars, dvars, cvars, args, config, setup, argv, relay, clock, tmp_dirs, runs,
            expand, waiter>>

\* A task calls record_host or record_denied_host.
CallRecord(t, group, host) ==
    /\ recorder.tasks[t].pc = "idle"
    /\ recorder.calls < MaxCalls
    /\ recorder' = [recorder EXCEPT !.calls = @ + 1,
                                    !.tasks[t] = [pc |-> "lock", group |-> group,
                                                  host |-> host, found |-> FALSE]]
    /\ UNCHANGED novars

\* self.config.lock()
LockConfig(t) ==
    /\ recorder.tasks[t].pc = "lock"
    /\ MutexFree(recorder.lock)
    /\ recorder' = [recorder EXCEPT !.lock = t, !.tasks[t].pc = "entry"]
    /\ UNCHANGED novars

\* config.network.groups.entry(..).or_insert_with(..)
OrInsert(t) ==
    /\ recorder.tasks[t].pc = "entry"
    /\ LET groups == or_insert(recorder.groups, recorder.tasks[t].group)
       IN  recorder' = [recorder EXCEPT !.groups = groups,
                                        !.flush = Observe(@, groups),
                                        !.tasks[t].pc = "contains"]
    /\ UNCHANGED novars

\* group.hosts.contains(&host.to_string())
ContainsHost(t) ==
    /\ recorder.tasks[t].pc = "contains"
    /\ recorder' = [recorder EXCEPT
                        !.tasks[t].found =
                            recorder.tasks[t].host
                                \in Range(HostsOf(recorder.groups, recorder.tasks[t].group)),
                        !.tasks[t].pc = "push"]
    /\ UNCHANGED novars

\* if !contains { group.hosts.push(..) }
Push(t) ==
    /\ recorder.tasks[t].pc = "push"
    /\ LET groups == IF recorder.tasks[t].found THEN recorder.groups
                     ELSE PushHost(recorder.groups, recorder.tasks[t].group,
                                   recorder.tasks[t].host)
       IN  recorder' = [recorder EXCEPT !.groups = groups,
                                        !.flush = Observe(@, groups),
                                        !.tasks[t].pc = "return"]
    /\ UNCHANGED novars

\* The guard drops and the call returns.
RecordReturns(t) ==
    /\ recorder.tasks[t].pc = "return"
    /\ recorder' = [recorder EXCEPT
                        !.lock = 0,
                        !.done = @ \cup {<<recorder.tasks[t].group, recorder.tasks[t].host>>},
                        !.tasks[t] = RecordIdle]
    /\ UNCHANGED novars

\* flush reads output_path; without a path it returns Ok(()) at once.
StartFlush ==
    /\ recorder.flush.pc = "idle"
    /\ recorder.flushes < MaxFlushes
    /\ recorder' = IF recorder.output_path
                   THEN [recorder EXCEPT !.flush = [pc |-> "lock", buf |-> <<>>, idx |-> 1,
                                                    seen |-> {recorder.groups}]]
                   ELSE [recorder EXCEPT !.flushes = @ + 1]
    /\ UNCHANGED novars

\* self.config.lock() in flush
FlushLock ==
    /\ recorder.flush.pc = "lock"
    /\ MutexFree(recorder.lock)
    /\ recorder' = [recorder EXCEPT !.lock = FlushTask, !.flush.pc = "serialize"]
    /\ UNCHANGED novars

\* toml::to_string_pretty walks the groups of the Config one after the other.
SerializeStep ==
    /\ recorder.flush.pc = "serialize"
    /\ recorder' =
          IF recorder.flush.idx <= Len(recorder.groups)
          THEN [recorder EXCEPT !.flush.buf = Append(@, recorder.groups[recorder.flush.idx]),
                                !.flush.idx = @ + 1]
          ELSE [recorder EXCEPT !.flush.pc = "write"]
    /\ UNCHANGED novars

\* fs::write(&path, toml_str) replaces the file.
FlushWrite ==
    /\ recorder.flush.pc = "write"
    /\ recorder' = [recorder EXCEPT !.file = Serialized(recorder.flush.buf),
                                    !.written = TRUE,
                                    !.flush.pc = "return"]
    /\ UNCHANGED novars

FlushReturns ==
    /\ recorder.flush.pc = "return"
    /\ recorder' = [recorder EXCEPT !.lock = 0, !.flushes = @ + 1, !.flush = FlushIdle]
    /\ UNCHANGED novars

\* set_output_path(path): late initialization of a recorder made without a path.
SetOutputPath ==
    /\ ~recorder.output_path
    /\ MutexFree(recorder.lock)
    /\ LET groups == load_or_empty(recorder.file)
       IN  recorder' = [recorder EXCEPT !.groups = groups,
                                        !.flush = Observe(@, groups),
                                        !.output_path = TRUE,
                                        !.loads = @ + 1]
    /\ UNCHANGED novars

LearnNext ==
    \/ \E t \in Recorders, group \in {SessionName, DeniedName}, host \in RecordedHostNames :
          CallRecord(t, group, host)
    \/ \E t \in Recorders : LockConfig(t)
    \/ \E t \in Recorders : OrInsert(t)
    \/ \E t \in Recorders : ContainsHost(t)
    \/ \E t \in Recorders : Push(t)
    \/ \E t \in Recorders : RecordReturns(t)
    \/ StartFlush
    \/ FlushLock
    \/ SerializeStep
    \/ FlushWrite
    \/ FlushReturns
    \/ SetOutputPath

LearnSpec == LearnInit /\ [][LearnNext]_vars

(***************************************************************************)
(* create_proxy_task (bwrap-core/src/proxy.rs): the launcher spawns        *)
(* ProxyServer::start as a task and waits for the socket path to exist.    *)
(* The sandbox, and with it every client of the daemon, starts only after  *)
(* create_proxy_task has returned.                                         *)
(***************************************************************************)
MaxPolls == 3         \* polls of the socket path that are counted

TaskInit ==
    /\ cfg \in ServerConfigs
    /\ pe \in (IF cfg.policy_engine THEN DaemonEngines ELSE {EngineStarC})
    /\ q_host = HostD
    /\ answers = [ip \in IpArgs |-> "unasked"]
    /\ daemon = [st |-> "init", first_connection |-> TRUE, accepts |-> 0, saves |-> 0]
    /\ path_exists \in BOOLEAN          \* a stale socket file may be there
    /\ mounted = FALSE
    /\ conns = [t \in Tasks |-> FreeConn]
    /\ rec_hosts = {}
    /\ denied_hosts = {}
    /\ file \in (IF cfg.learning_output THEN {NoFile, OldFile} ELSE {NoFile})
    /\ last_done = "none"
    /\ waiter = [st |-> "polling", polls |-> 0, bound |-> FALSE]
    /\ ConfigIdle
    /\ LaunchIdle /\ RelayIdle /\ TmpIdle /\ ExpandIdle /\ LearnIdle

wovars == <<pe, pvars, dvars, cvars, args, config, setup, argv, relay, clock, tmp_dirs, runs,
            expand, recorder>>

\* `if socket_check.exists() { break; }` and `Ok((socket_path, learning_mode))`
PollExists ==
    /\ waiter.st = "polling"
    /\ path_exists
    /\ waiter' = [waiter EXCEPT !.st = "returned", !.bound = daemon.st = "listening"]
    /\ UNCHANGED wovars

\* The path does not exist: tokio::time::sleep(1 ms)
PollMissing ==
    /\ waiter.st = "polling"
    /\ ~path_exists
    /\ waiter' = [waiter EXCEPT !.st = "sleeping", !.polls = Min2(@ + 1, MaxPolls)]
    /\ UNCHANGED wovars

\* The sleep ends and the loop goes round.
Wake ==
    /\ waiter.st = "sleeping"
    /\ waiter' = [waiter EXCEPT !.st = "polling"]
    /\ UNCHANGED wovars

Wait == PollExists \/ PollMissing \/ Wake

TaskNext ==
    \/ Start
    \/ StartBindFails
    \/ \E sig \in {"SIGTERM", "SIGINT"} : Signal(sig)
    \/ PollExists
    \/ PollMissing
    \/ Wake

TaskSpec == TaskInit /\ [][TaskNext]_vars

\* The runtime runs the spawned task and the launcher's loop whenever they can step.
TaskFairSpec == TaskSpec /\ WF_vars(Start \/ StartBindFails) /\ WF_vars(Wait)

(***************************************************************************)
(* The three graph traversals on one reference graph: expand_group over    *)
(* network.groups, the validator's dfs_cycle_check over the same groups,   *)
(* and resolve_filesystem_config over filesystem.configs whose `extends`   *)
(* lists are the same edges. The graph is not validated: it may have       *)
(* cycles and may name a group that is not defined.                        *)
(*                                                                         *)
(* The ...Calls operators follow the recursion of each traversal and list, *)
(* in order, the names whose body ran past the early returns.              *)
(***************************************************************************)
RECURSIVE ExpandCalls(_, _, _, _)
RECURSIVE ExpandEachCalls(_, _, _, _)
ExpandCalls(group_name, groups, matcher, processed) ==
    IF group_name \in processed THEN <<>>
    ELSE IF ~ContainsKey(groups, group_name) THEN <<group_name>>
    ELSE LET host_group == Get(groups, group_name)
             v4 == AddIpv4Ranges(host_group.ipv4_ranges, AddPatterns(host_group.hosts, matcher))
             v6 == AddIpv6Ranges(host_group.ipv6_ranges, v4.matcher)
         IN  IF ~v4.res.ok \/ ~v6.res.ok THEN <<group_name>>
             ELSE <<group_name>> \o ExpandEachCalls(host_group.groups, groups, v6.matcher,
                                                    processed \cup {group_name})

ExpandEachCalls(names, groups, matcher, processed) ==
    IF names = <<>> THEN <<>>
    ELSE LET r == expand_group(Head(names), groups, matcher, processed)
         IN  ExpandCalls(Head(names), groups, matcher, processed)
                 \o (IF ~r.res.ok THEN <<>>
                     ELSE ExpandEachCalls(Tail(names), groups, r.matcher, r.processed))

RECURSIVE DfsCalls(_, _, _, _)
RECURSIVE DfsChildrenCalls(_, _, _, _)
DfsCalls(group_name, groups, visited, path) ==
    IF group_name \in Range(path) \/ group_name \in visited THEN <<>>
    ELSE LET children == IF ContainsKey(groups, group_name)
                         THEN Get(groups, group_name).groups ELSE <<>>
         IN  <<group_name>> \o DfsChildrenCalls(children, groups, visited \cup {group_name},
                                                Append(path, group_name))

DfsChildrenCalls(children, groups, visited, path) ==
    IF children = <<>> THEN <<>>
    ELSE LET r == dfs_cycle_check(Head(children), groups, visited, path)
         IN  DfsCalls(Head(children), groups, visited, path)
                 \o (IF r.res.ok THEN DfsChildrenCalls(Tail(children), groups, r.visited, r.path)
                     ELSE <<>>)

RECURSIVE ResolveCalls(_, _, _)
RECURSIVE ResolveParentsCalls(_, _, _)
ResolveCalls(configs, name, visited) ==
    IF name \in visited THEN <<>>
    ELSE IF ~ContainsKey(configs, name) THEN <<name>>
    ELSE <<name>> \o ResolveParentsCalls(configs, Get(configs, name).extends,
                                         visited \cup {name})

ResolveParentsCalls(configs, parents, visited) ==
    IF parents = <<>> THEN <<>>
    ELSE LET parent == resolve_filesystem_recursive(configs, Head(parents), visited)
         IN  ResolveCalls(configs, Head(parents), visited)
                 \o (IF parent.res.ok
                     THEN ResolveParentsCalls(configs, Tail(parents), parent.visited)
                     ELSE <<>>)

\* The names a list refers to: the defined ones and one that is not defined.
RefNames == GroupNames \cup {NameSeq[MaxGroups + 1]}
ChildLists ==
    {<<>>} \cup {<<x>> : x \in RefNames} \cup {p \in RefNames \X RefNames : p[1] # p[2]}

TraverseInit ==
    /\ ProxyIdle
    /\ SandboxIdle
    /\ \E f \in [1..MaxGroups -> ChildLists] :
          /\ network = [i \in 1..MaxGroups |->
                          <<NameSeq[i], RangedHostGroup(<<>>, <<>>, <<>>, <<>>, f[i])>>]
          /\ fs_configs = [i \in 1..MaxGroups |->
                             <<NameSeq[i], FilesystemSpec(NameSeq[i], f[i])>>]
    /\ validation = [step |-> "start"]
    /\ resolved = [name |-> "none"]
    /\ base_cfg = "none"
    /\ override_cfg = "none"
    /\ merged = [done |-> FALSE]
    /\ loaded = [done |-> FALSE]

\* Self::dfs_cycle_check(name, &network.groups, &mut visited, &mut path)
DfsCycleCheck(root) ==
    /\ validation.step = "start"
    /\ validation' = [step |-> "done", root |-> root,
                      result |-> dfs_cycle_check(root, network, {}, <<>>),
                      calls |-> DfsCalls(root, network, {}, <<>>)]
    /\ UNCHANGED <<ovars, network, fs_configs, resolved, base_cfg, override_cfg, merged, loaded>>

\* resolve_filesystem_config(&config, name)
ResolveFilesystem(root) ==
    /\ resolved.name = "none"
    /\ resolved' = [name |-> root,
                    result |-> resolve_filesystem_config(fs_configs, root),
                    calls |-> ResolveCalls(fs_configs, root, {})]
    /\ UNCHANGED <<ovars, network, validation, fs_configs, base_cfg, override_cfg, merged,
                   loaded>>

\* Self::expand_group(name, &network_config.groups, &mut matcher, &mut processed)
ExpandGroup(root) ==
    /\ ~expand.done
    /\ expand' = [done |-> TRUE, root |-> root,
                  result |-> expand_group(root, network, NewMatcher, {}),
                  calls |-> ExpandCalls(root, network, NewMatcher, {})]
    /\ UNCHANGED <<pe, pvars, dvars, cvars, args, config, setup, argv, relay, clock, tmp_dirs,
                   runs, recorder, waiter>>

TraverseNext ==
    \/ \E root \in GroupNames : DfsCycleCheck(root)
    \/ \E root \in GroupNames : ResolveFilesystem(root)
    \/ \E root \in GroupNames : ExpandGroup(root)

TraverseSpec == TraverseInit /\ [][TraverseNext]_vars

(***************************************************************************)
(* Claims about the filter daemon (checked under Spec).                    *)
(***************************************************************************)
\* The first read of the handler has returned (with bytes, or with 0 at end of stream).
ReadReturned(c) ==
    \/ c.st \in {"connect", "tunnel"}
    \/ c.st = "done" /\ (c.rx # <<>> \/ c.result = "Ok")

\* Exactly `CONNECT <host> <port>\n`, the port a u16.
WellFormed(rx) ==
    \E h \in Hosts, n \in Numbers : NumberValue(n) <= U16Max /\ rx = RequestLine(h, n)

ReplyCount(out) == Cardinality({i \in 1..Len(out) : out[i] \in Replies})

\* What follows the first newline of s (nothing when s has no newline).
RECURSIVE AfterRequestLine(_)
AfterRequestLine(s) ==
    IF s = <<>> THEN <<>>
    ELSE IF Head(s) = NL THEN Tail(s)
    ELSE AfterRequestLine(Tail(s))

\* C1: with an engine configured, a request for a host the engine denies is answered
\* BLOCKED and no TCP connection is attempted for it; every TCP connection the daemon
\* attempts is to a host the engine allows.
C1_PolicyEnforced ==
    \A t \in Tasks :
        LET c == conns[t]
            p == ParseRequest(c.rx)
        IN  cfg.policy_engine =>
              /\ c.tcp # "none" => Allow(pe, c.host, None)
              /\ (p.kind = "ok" /\ ~Allow(pe, p.host, None))
                    => (c.st = "done" /\ c.cout = <<"BLOCKED">> /\ c.tcp = "none")

C1_Witness ==
    /\ cfg.policy_engine
    /\ daemon.accepts = 2
    /\ \E t \in Tasks :
          /\ conns[t].cout = <<"BLOCKED">>
          /\ conns[t].tcp = "none"
          /\ ParseRequest(conns[t].rx).kind = "ok"
          /\ ~Allow(pe, ParseRequest(conns[t].rx).host, None)
    /\ last_done = "BLOCKED"

\* C6: every input of a connection that is not exactly `CONNECT <host> <port>\n`
\* (the empty input included) is answered ERROR, with no TCP connection, and the
\* connection is closed.
C6_MalformedGetsError ==
    \A t \in Tasks :
        LET c == conns[t]
        IN  (ReadReturned(c) /\ ~WellFormed(c.rx))
                => (c.st = "done" /\ c.cout = <<"ERROR">> /\ c.tcp = "none")

\* C7: every connection whose handler has returned without an I/O error got exactly
\* one reply line; a reply is the first thing the client receives and nothing after
\* it is a reply; OK follows an established TCP connection and FAIL a failed one.
C7_ExactlyOneReply ==
    \A t \in Tasks :
        LET c == conns[t]
        IN  /\ (c.st = "done" /\ c.result = "Ok") => ReplyCount(c.cout) = 1
            /\ c.cout # <<>> => (c.cout[1] \in Replies /\ ReplyCount(c.cout) = 1)
            /\ (c.cout # <<>> /\ c.cout[1] = "OK") => c.tcp = "ok"
            /\ (c.cout # <<>> /\ c.cout[1] = "FAIL") => c.tcp = "fail"

\* C8: after OK, what the destination has received is a prefix of what the client
\* sent after its request line, and what the client has received after OK is a
\* prefix of what the destination sent.
C8_TunnelTransparent ==
    \A t \in Tasks :
        LET c == conns[t]
        IN  (c.cout # <<>> /\ c.cout[1] = "OK")
                => /\ IsPrefix(c.d2r, AfterRequestLine(SubSeq(c.req, 1, c.nsent)))
                   /\ IsPrefix(Tail(c.cout), SubSeq(DestData, 1, c.rsent))

\* C9: from bind to the first accept the socket path exists; once a connection has
\* been accepted the path is gone for good; the listener still takes the connections
\* that reach it.
C9_SocketUnlinked ==
    /\ (daemon.st = "listening" /\ daemon.accepts = 0) => path_exists
    /\ daemon.accepts >= 1 => ~path_exists
    /\ \A t \in Tasks :
          (daemon.st = "listening" /\ conns[t].st = "pending") => ENABLED Accept(t)

C9_Witness ==
    /\ daemon.accepts = 2
    /\ daemon.st = "listening"
    /\ ~path_exists
    /\ mounted
    /\ \E t \in Tasks : conns[t].st = "tunnel" /\ Len(conns[t].cout) = 3

\* C10: no outcome of a connection changes the accept loop: a step in which a handler
\* returns (ERROR, BLOCKED, FAIL, nothing received, an I/O error, the tunnel's end)
\* leaves the daemon as it was, and a listening daemon accepts whatever is pending.
C10_FailSoft ==
    /\ [][ (\E t \in Tasks : conns[t].st # "done" /\ conns'[t].st = "done")
              => daemon' = daemon ]_vars
    /\ [](\A t \in Tasks :
            (daemon.st = "listening" /\ conns[t].st = "pending") => ENABLED Accept(t))

C10_Witness ==
    /\ last_done = "io"
    /\ daemon.st = "listening"
    /\ \E t \in Tasks : conns[t].cout = <<"OK">> /\ WellFormed(conns[t].rx)

(***************************************************************************)
(* Claims about the learning recorder in the daemon (checked under Spec).  *)
(***************************************************************************)
\* format!("{}_denied", self.session_name)
DeniedGroupName == "learned_session_denied"

\* The file has a table of that name that lists the host.
InGroup(f, name, h) ==
    \E i \in 1..Len(f.groups) : f.groups[i].name = name /\ h \in f.groups[i].hosts

\* How many [network.groups.<session_name>] tables the file has.
SessionTables(f) == Cardinality({i \in 1..Len(f.groups) : f.groups[i].name = SessionName})

\* The hosts of the tables that are not this session's: what the file had before.
PreSessionHosts(f) ==
    UNION {f.groups[i].hosts :
             i \in {j \in 1..Len(f.groups) :
                      f.groups[j].name \notin {SessionName, DeniedGroupName}}}

\* The request of the connection has passed the policy check.
PassedPolicy(c) == c.st \in {"connect", "tunnel"} \/ (c.st = "done" /\ c.tcp # "none")

LearningOn == cfg.learning_recorder /\ cfg.learning_output

\* C11: with a recorder, an output path and an enforcing engine, a host that was
\* answered BLOCKED is in the recorder's denied hosts and in the
\* `<session_name>_denied` table of the output file.
C11_DeniedRecorded ==
    \A t \in Tasks :
        (LearningOn /\ cfg.policy_engine /\ conns[t].cout = <<"BLOCKED">>)
            => /\ conns[t].host \in denied_hosts
               /\ InGroup(file, DeniedGroupName, conns[t].host)

\* C12: with a recorder and an output path, a host whose request has passed the
\* policy check is recorded, and is in the session's table of the output file (or
\* was in the file before the session), from before the dial on.
C12_SavedBeforeConnect ==
    \A t \in Tasks :
        (LearningOn /\ PassedPolicy(conns[t]))
            => /\ conns[t].host \in rec_hosts
               /\ \/ conns[t].host \in PreSessionHosts(file)
                  \/ InGroup(file, SessionName, conns[t].host)

\* C13: with a recorder and an output path, the output file always parses, has at
\* most one table of the session, and once a host is recorded that the file did not
\* have before, has exactly one, which lists every such host.
C13_OneSessionTable ==
    LearningOn =>
        /\ FileParses(file)
        /\ SessionTables(file) <= 1
        /\ \A h \in rec_hosts \ PreSessionHosts(file) :
              SessionTables(file) = 1 /\ InGroup(file, SessionName, h)

(***************************************************************************)
(* Claims about the validator (checked under ValidatorSpec).               *)
(***************************************************************************)
\* The groups a group refers to.
Succ(groups, a) == IF ContainsKey(groups, a) THEN Range(Get(groups, a).groups) ELSE {}

\* Everything reachable from the set S along `groups:` references, S included.
RECURSIVE ReachFrom(_, _)
ReachFrom(groups, S) ==
    LET N == S \cup UNION {Succ(groups, a) : a \in S}
    IN  IF N = S THEN S ELSE ReachFrom(groups, N)

HasCycle(groups) == \E a \in Keys(groups) : a \in ReachFrom(groups, Succ(groups, a))

\* p follows references from group to group and ends in a group it has been through.
IsCyclePath(groups, p) ==
    /\ Len(p) >= 2
    /\ \A i \in 1..(Len(p) - 1) : p[i + 1] \in Succ(groups, p[i])
    /\ \E i \in 1..(Len(p) - 1) : p[i] = p[Len(p)]

\* C14: check_cycles returns CycleDetected, with a path that runs into itself along
\* `groups:` references, exactly when the reference graph has a cycle (a group that
\* refers to itself included); it returns Ok for every acyclic graph.
C14_CyclesDetected ==
    validation.step # "start" =>
        LET r == validation.cycles
        IN  IF HasCycle(network)
            THEN ~r.ok /\ r.kind = "CycleDetected" /\ IsCyclePath(network, r.what)
            ELSE r.ok

C14_Witness ==
    /\ validation.step = "done"
    /\ ~validation.cycles.ok
    /\ validation.cycles.what = <<"a", "b", "c", "b">>

\* C18: validate rejects with InvalidPattern every network in which a pattern of a
\* group, in `hosts` or in `hosts_deny`, contains `**`, NUL or a newline (and which
\* has no cycle and no unknown reference, which validate reports first).
C18_BadPatternsRejected ==
    (/\ validation.step = "done"
     /\ check_cycles(network).ok /\ validate_references(network).ok
     /\ \E i \in 1..Len(network) :
            \E pat \in Range(network[i][2].hosts) \cup Range(network[i][2].hosts_deny) :
                InvalidPattern(pat))
        => (~validation.result.ok /\ validation.result.kind = "InvalidPattern")

(***************************************************************************)
(* Claims about the filesystem resolver (checked under ResolverSpec).      *)
(***************************************************************************)
\* The specs a spec extends.
Parents(configs, a) == IF ContainsKey(configs, a) THEN Range(Get(configs, a).extends) ELSE {}

\* Everything reachable from the set S along `extends`, S included.
RECURSIVE ExtendsReach(_, _)
ExtendsReach(configs, S) ==
    LET N == S \cup UNION {Parents(configs, a) : a \in S}
    IN  IF N = S THEN S ELSE ExtendsReach(configs, N)

\* The `extends` graph reachable from name has a cycle.
CycleFrom(configs, name) ==
    \E a \in ExtendsReach(configs, {name}) : a \in ExtendsReach(configs, Parents(configs, a))

AllExist(configs, name) == ExtendsReach(configs, {name}) \subseteq Keys(configs)

\* Field f of the spec `name` with everything it extends, parents first, in order.
RECURSIVE Flat(_, _, _)
RECURSIVE FlatParents(_, _, _)
Flat(configs, name, f) ==
    FlatParents(configs, Get(configs, name).extends, f) \o Get(configs, name)[f]

FlatParents(configs, parents, f) ==
    IF parents = <<>> THEN <<>>
    ELSE Flat(configs, Head(parents), f) \o FlatParents(configs, Tail(parents), f)

\* C15: resolve_filesystem_config fails with a circular-reference error only if the
\* `extends` graph reachable from the name has a cycle; it does so whenever that graph
\* has one (all names existing), and succeeds on every acyclic graph whose names all
\* exist, a spec reachable through two parents included.
C15_CircularIffCycle ==
    resolved.name # "none" =>
        LET r == resolved.res
            circular == ~r.ok /\ r.what[1] = "Circular reference"
            cyclic == CycleFrom(fs_configs, resolved.name)
            exist == AllExist(fs_configs, resolved.name)
        IN  /\ circular => cyclic
            /\ (cyclic /\ exist) => circular
            /\ (~cyclic /\ exist) => r.ok

MapsOf(c) == <<c.network.groups, c.filesystem.configs, c.policy.policies, c.tools>>

NoKeyTwice(m) == \A i, j \in 1..Len(m) : m[i][1] = m[j][1] => i = j

\* C19: after merge_configs(base, override), in each of network.groups,
\* filesystem.configs, policy.policies and tools every key of the override maps to
\* the override's entry, whole, and every key only the base has keeps the base's
\* entry; the merged map has these keys and no others, each once.
C19_OverrideWholesale ==
    merged.done =>
        \A f \in 1..4 :
            LET b == MapsOf(base_cfg)[f]
                o == MapsOf(override_cfg)[f]
                m == MapsOf(merged.config)[f]
            IN  /\ Keys(m) = Keys(b) \cup Keys(o)
                /\ NoKeyTwice(m)
                /\ \A k \in Keys(o) : Get(m, k) = Get(o, k)
                /\ \A k \in Keys(b) \ Keys(o) : Get(m, k) = Get(b, k)

\* A merge where base and override share key "a" with different entries and only the
\* base has key "b".
C19_Witness ==
    /\ merged.done
    /\ \A f \in 1..4 :
          LET b == MapsOf(base_cfg)[f]
              o == MapsOf(override_cfg)[f]
          IN  /\ Keys(b) = {"a", "b"}
              /\ Keys(o) = {"a"}
              /\ Get(b, "a") # Get(o, "a")
              /\ Get(MapsOf(merged.config)[f], "a") = Get(o, "a")

\* C20: merging a configuration with itself gives that configuration: the same
\* entries with the same values in the same iteration order in all four maps, and
\* the same common section.
C20_MergeIdempotent ==
    (merged.done /\ base_cfg = override_cfg) => merged.config = base_cfg

\* A configuration with two entries per map merged with itself.
C20_Witness ==
    /\ merged.done
    /\ base_cfg = override_cfg
    /\ \A f \in 1..4 : Len(MapsOf(base_cfg)[f]) = 2
    /\ merged.config = base_cfg

\* C17: every Config that load_with_priority returns has passed validate: its
\* groups graph has no cycle, every `groups:` reference exists, no pattern is
\* malformed (here for a built-in configuration that is itself valid).
C17_LoadedIsValidated ==
    (/\ loaded.done
     /\ loaded.res.ok
     /\ validate(base_cfg.network.groups).ok)
        => validate(loaded.res.config.network.groups).ok

(***************************************************************************)
(* Claims about the launcher (checked under LaunchSpec).                   *)
(***************************************************************************)
NoLearning == ~IsSome(args.learn) /\ ~IsSome(args.learn_deny)
Built == argv.done /\ argv.res.ok
Policies == config.policy.policies
\* The policy the run selects: --policy, or the tool's default.
SelectedPolicy == IF IsSome(args.policy) THEN Unwrap(args.policy) ELSE DefaultPolicyName

\* C21: with --policy open (a policy of network = open), no learning flag and no
\* --no-network, policy setup spawns no filter daemon and the network mode is
\* Enabled, so that the options of bubblewrap have --share-net and not --unshare-net.
C21_OpenPolicyNoDaemon ==
    (/\ setup.done
     /\ args.policy = Some("open") /\ NoLearning /\ ~args.no_network
     /\ ContainsKey(Policies, "open"))
        => /\ setup.res.ok
           /\ setup.res.spawned = <<>>
           /\ setup.res.network_mode = Enabled
           /\ Built => /\ ListHas(argv.res.cmd.options, "--share-net")
                       /\ ~ListHas(argv.res.cmd.options, "--unshare-net")

\* C22: whenever --no-network is given, policy setup gives the network mode Disabled
\* and spawns no filter daemon task, whatever --policy, --learn and --learn-deny are.
C22_NoNetworkDisables ==
    (setup.done /\ args.no_network)
        => /\ setup.res.ok
           /\ setup.res.network_mode = Disabled
           /\ setup.res.spawned = <<>>

\* --no-network together with a policy that asks for the proxy and --learn-deny.
C22_Witness ==
    /\ setup.done /\ args.no_network
    /\ args.policy = Some("claude") /\ IsSome(args.learn_deny)
    /\ ContainsKey(Policies, "claude")
    /\ Get(Policies, "claude").network.network = "Proxy"
    /\ setup.res.network_mode = Disabled

Count(l, x) == Cardinality({i \in 1..Len(l) : l[i] = x})

\* C23: the options of every bubblewrap command built contain --die-with-parent,
\* --unshare-pid and --unshare-ipc and exactly one of --share-net and --unshare-net:
\* --share-net exactly in mode Enabled, --unshare-net in Disabled and in Filtered.
C23_NamespaceFlags ==
    Built =>
        LET options == argv.res.cmd.options
            kind == setup.res.network_mode.kind
        IN  /\ ListHas(options, "--die-with-parent")
            /\ ListHas(options, "--unshare-pid")
            /\ ListHas(options, "--unshare-ipc")
            /\ Count(options, "--share-net") + Count(options, "--unshare-net") = 1
            /\ ListHas(options, "--share-net") <=> kind = "Enabled"
            /\ ListHas(options, "--unshare-net") <=> kind \in {"Disabled", "Filtered"}

\* A Filtered sandbox whose tool is itself given the argument --share-net.
C23_Witness ==
    /\ Built
    /\ setup.res.network_mode.kind = "Filtered"
    /\ args.cli_args = <<"--share-net">>
    /\ ListHas(argv.res.cmd.options, "--unshare-net")
    /\ ListHas(argv.res.cmd.command, "--share-net")

\* `<tool-cli-path> <default_args> <cli_args>`, or `/bin/sh -i` with --shell
ToolItself ==
    IF args.shell THEN <<"/bin/sh", "-i">> \o args.cli_args
    ELSE <<Tool(args.cli_args).cli_path>> \o Tool(args.cli_args).default_args
         \o args.cli_args

\* C24: the relay is part of the sandbox exactly in Filtered mode: then the socket is
\* bound at /proxy.sock, the relay at /bw-relay and the command is
\* `/bw-relay --socket /proxy.sock -- <target>`; in Enabled and Disabled mode nothing
\* is mounted at /bw-relay or /proxy.sock, the command is the tool itself, and the
\* build does not depend on a relay binary being found.
C24_RelayOnlyWhenFiltered ==
    /\ Built =>
        LET options == argv.res.cmd.options
            command == argv.res.cmd.command
        IN  IF setup.res.network_mode.kind = "Filtered"
            THEN /\ Contains(options, <<"--bind", "proxy_socket", "/proxy.sock">>)
                 /\ Contains(options, <<"--ro-bind", "relay_path", "/bw-relay">>)
                 /\ command = <<"/bw-relay", "--socket", "/proxy.sock", "--">> \o ToolItself
            ELSE /\ ~ListHas(options, "/bw-relay")
                 /\ ~ListHas(options, "/proxy.sock")
                 /\ command = ToolItself
    /\ (argv.done /\ setup.res.network_mode.kind # "Filtered") => argv.res.ok

\* The filesystem spec of the selected policy resolves (or the policy names none).
FilesystemResolves ==
    LET fsref == Get(Policies, SelectedPolicy).filesystem
    IN  IsSome(fsref) => resolve_filesystem_config(config.filesystem.configs, Unwrap(fsref)).ok

\* C27: when the selected policy is not in the configuration, or its filesystem spec
\* does not resolve (unknown name or extends cycle), policy setup returns an error
\* and no filter daemon is spawned (and so no sandbox is built).
C27_ConfigErrorsFailFast ==
    (setup.done /\ (~ContainsKey(Policies, SelectedPolicy) \/ ~FilesystemResolves))
        => /\ ~setup.res.ok
           /\ setup.res.spawned = <<>>
           /\ ~argv.done

(***************************************************************************)
(* Claims about the export directory (checked under TmpSpec).              *)
(***************************************************************************)
Running(r) == runs[r].st = "running"

\* C28: two launcher runs alive at the same time never have the same export
\* directory, and the directory of a running sandbox exists: the removal at another
\* run's drop never deletes it.
C28_ExportDirExclusive ==
    /\ \A r1, r2 \in DOMAIN runs :
          (r1 # r2 /\ Running(r1) /\ Running(r2))
              => runs[r1].tmp_export_dir # runs[r2].tmp_export_dir
    /\ \A r \in DOMAIN runs : Running(r) => Unwrap(runs[r].tmp_export_dir) \in tmp_dirs

(***************************************************************************)
(* Claims about the relay (checked under RelaySpec).                       *)
(***************************************************************************)
RECURSIVE Flatten(_)
Flatten(segs) == IF segs = <<>> THEN <<>> ELSE Head(segs) \o Flatten(Tail(segs))

\* What the client sent behind the first \r\n\r\n.
PostHeaderBytes(sent) ==
    LET all == Flatten(sent)
        ends == {i \in 4..Len(all) : SubSeq(all, i - 3, i) = <<CR, NL, CR, NL>>}
    IN  IF ends = {} THEN <<>>
        ELSE SubSeq(all, (CHOOSE i \in ends : \A j \in ends : i <= j) + 1, Len(all))

\* C25: a client whose request line cannot be parsed, whose headers are too large,
\* for whom the connect to the daemon socket fails, or whose daemon reply does not
\* start with OK, is sent 502 Bad Gateway and gets no tunnel; the relay goes on
\* listening.
C25_ErrorsAnswered502 ==
    /\ \A i \in DOMAIN relay.clients :
          LET c == relay.clients[i]
          IN  (c.st = "closed" /\ c.cause \in {"parse", "overflow", "uds", "reply"})
                  => c.to_client = <<"502">> /\ c.tunnelled = <<>>
    /\ (relay.accepted > 0 /\ relay.main # "exited") => relay.st = "listening"

\* C26: the daemon receives every byte the client sent behind the header
\* terminator, once and in order: when the tunnel has ended, what was written to
\* the daemon socket after the handshake is what the client sent after \r\n\r\n.
C26_BufferedBytesForwarded ==
    \A i \in DOMAIN relay.clients :
        LET c == relay.clients[i]
        IN  (c.st = "closed" /\ c.cause = "done") => c.tunnelled = PostHeaderBytes(c.sent)

(***************************************************************************)
(* Claims about the construction of the engine (checked under ExpandSpec). *)
(***************************************************************************)
ExpandPolicy == Get(expand.network.policies, expand.policy_name)
ExpandGroups == expand.network.groups
EngineBuilt == expand.done /\ expand.res.ok
AllowRoots == IF ExpandPolicy.allow_groups # <<>> THEN ExpandPolicy.allow_groups
              ELSE ExpandPolicy.groups
AllowReach == ReachFrom(ExpandGroups, Range(AllowRoots))
DenyReach == ReachFrom(ExpandGroups, Range(ExpandPolicy.deny_groups))
ExpandPatterns == {HostAC, HostBC, HostD, PatStarC, PatStarBC}

RECURSIVE HostsCount(_, _)
HostsCount(S, pat) ==
    IF S = {} THEN 0
    ELSE LET g == CHOOSE x \in S : TRUE
         IN  Count(Get(ExpandGroups, g).hosts, pat) + HostsCount(S \ {g}, pat)

ExpansionExact ==
    /\ \A pat \in ExpandPatterns :
          Count(expand.res.engine.allow_matcher.patterns, pat) = HostsCount(AllowReach, pat)
    /\ \A g \in DenyReach : \A pat \in Range(Get(ExpandGroups, g).hosts) :
          pat \in Range(expand.res.engine.deny_matcher.patterns)

\* C29 as stated: for every policy whose engine is built, the allow patterns are
\* exactly the hosts of the groups reachable from the effective allow groups,
\* each group once, and the hosts of every group reachable from deny_groups are
\* deny patterns.
C29_EveryPolicyExpanded == EngineBuilt => ExpansionExact

\* C29, for the policies that do not allow all: the allow patterns of the engine
\* are the hosts of the groups reachable from allow_groups (from the old `groups`
\* when allow_groups is empty), each group counted once however many paths lead
\* to it, and the hosts of every group reachable from deny_groups are deny
\* patterns; a group reachable from both lists is in both matchers.
C29_ExpansionExact == (EngineBuilt /\ ~ExpandPolicy.allow_all) => ExpansionExact

\* An engine built from the old `groups` field, with a group that has patterns,
\* is reached along two paths and is reachable from deny_groups as well.
C29_Witness ==
    /\ EngineBuilt /\ ~ExpandPolicy.allow_all
    /\ ExpandPolicy.allow_groups = <<>> /\ ExpandPolicy.groups # <<>>
    /\ \E g \in AllowReach \cap DenyReach :
          /\ Get(ExpandGroups, g).hosts # <<>>
          /\ Cardinality({h \in AllowReach : g \in Succ(ExpandGroups, h)})
                 + Count(AllowRoots, g) >= 2

\* C30: every hosts_deny pattern of every group expanded for the policy is a deny
\* pattern of the engine, and a host that matches a hosts_deny pattern of a group
\* of the allow groups and no allow pattern is denied, whatever the default.
C30_HostsDenyDenied ==
    (EngineBuilt /\ ~ExpandPolicy.allow_all) =>
        /\ \A g \in AllowReach \cup DenyReach :
              \A pat \in Range(Get(ExpandGroups, g).hosts_deny) :
                  pat \in Range(expand.res.engine.deny_matcher.patterns)
        /\ \A host \in Hosts :
              ( /\ \E g \in AllowReach : \E pat \in Range(Get(ExpandGroups, g).hosts_deny) :
                      WildMatches(pat, host)
                /\ ~matches_host(expand.res.engine.allow_matcher, host) )
              => ~Allow(expand.res.engine, host, None)

(***************************************************************************)
(* Further claims about the filter daemon (checked under Spec).            *)
(***************************************************************************)
WellFormedRequests ==
    {RequestLine(HostAC, "443"), RequestLine(HostD, "443"), RequestLine(HostBC, "443")}

\* C31: a well-formed request line gets the reply and the effect of its delivery
\* in one write however the client's writes cut it up: it is never answered ERROR,
\* never dropped without a reply as an empty request, and the host and port
\* checked and dialled are those of the whole line.
C31_SegmentationIrrelevant ==
    \A t \in Tasks :
        LET conn == conns[t]
            whole == ParseRequest(conn.req)
        IN  (conn.req \in WellFormedRequests /\ conn.st \in {"connect", "tunnel", "done"}
                /\ conn.result # "Err")
            => /\ conn.cout # <<"ERROR">>
               /\ conn.rx # <<>>
               /\ conn.host = whole.host /\ conn.port = whole.port

InFlight(t) == conns[t].st \in {"read", "connect", "tunnel"}

\* C32: once the daemon has handled SIGINT or SIGTERM, also with connections in
\* flight, start() has returned: it accepts no connection any more and does
\* nothing else, and it has called save_to_file once if a recorder and an output
\* path are configured, and not at all if not; before the signal it has not.
C32_SignalStopsAndSaves ==
    [][ /\ daemon.st = "stopped" =>
            /\ daemon' = daemon
            /\ \A t \in Tasks : conns[t].st = "pending" => conns'[t].st = "pending"
            /\ \A t \in Tasks : InFlight(t) \/ conns'[t].st \notin {"read", "connect", "tunnel"}
        /\ daemon'.st = "stopped" =>
            daemon'.saves = (IF cfg.learning_recorder /\ cfg.learning_output THEN 1 ELSE 0)
        /\ daemon'.st = "listening" => daemon'.saves = 0
        /\ (daemon.st = "listening" /\ daemon'.st = "stopped") =>
            file' = (IF cfg.learning_recorder /\ cfg.learning_output
                     THEN save_to_file(rec_hosts, file) ELSE file) ]_vars

\* The daemon has stopped on a signal with a connection in flight and has saved.
C32_Witness ==
    /\ daemon.st = "stopped" /\ daemon.saves = 1
    /\ \E t \in Tasks : InFlight(t)
    /\ rec_hosts # {}

\* C39: the hosts the recorder holds, and those of the session's table in the
\* output file, are hosts the engine allows: a connection answered BLOCKED adds
\* nothing to them.
C39_DeniedNeverLearned ==
    cfg.policy_engine =>
        /\ \A h \in rec_hosts : Allow(pe, h, None)
        /\ \A h \in Hosts : InGroup(file, SessionName, h) => Allow(pe, h, None)
        /\ \A t \in Tasks : conns[t].cout = <<"BLOCKED">> => conns[t].host \notin rec_hosts

\* A denied connection in a session that has learned a host.
C39_Witness ==
    /\ cfg.policy_engine /\ cfg.learning_recorder /\ cfg.learning_output
    /\ rec_hosts # {}
    /\ \E h \in Hosts : InGroup(file, SessionName, h)
    /\ \E t \in Tasks : conns[t].cout = <<"BLOCKED">> /\ conns[t].host \notin rec_hosts

(***************************************************************************)
(* Further claims about the relay (checked under RelaySpec).               *)
(***************************************************************************)
\* C38: the relay sends a client at most one status response: once 200 has been
\* sent, nothing else of the relay's own follows it, however the tunnel ends.
C38_OneStatusResponse ==
    \A i \in DOMAIN relay.clients :
        LET c == relay.clients[i]
        IN  /\ Len(c.to_client) <= 1
            /\ (c.to_client # <<>> /\ c.to_client[1] = "200") => c.to_client = <<"200">>

\* C35: the target runs only when the HTTP listener is bound, whichever of the
\* listener task and the main task comes first, and no connection of the target
\* is refused for want of a listener.
C35_ListenerBeforeTarget ==
    /\ relay.main = "target" => relay.st = "listening"
    /\ ~relay.refused

NoDuplicates(s) == \A i, j \in 1..Len(s) : s[i] = s[j] => i = j

\* C33: record_host and record_denied_host calls that run concurrently on one shared
\* recorder lose no update and record each distinct host exactly once: the hosts of a
\* session group are pairwise distinct, a call that has pushed finds its host in its
\* group, and every call that returned left its host there (as long as no
\* set_output_path replaced the Config). A flush that runs while hosts are recorded
\* writes the Config of one single point: the file it wrote is the serialization of a
\* Config the recorder held during the call.
C33_RecorderThreadSafe ==
    /\ \A g \in {SessionName, DeniedName} : NoDuplicates(HostsOf(recorder.groups, g))
    /\ \A t \in Recorders :
          recorder.tasks[t].pc = "return"
              => recorder.tasks[t].host
                     \in Range(HostsOf(recorder.groups, recorder.tasks[t].group))
    /\ recorder.loads = 0
          => \A d \in recorder.done : d[2] \in Range(HostsOf(recorder.groups, d[1]))
    /\ recorder.flush.pc = "return"
          => \E groups \in recorder.flush.seen : recorder.file = Serialized(groups)

\* Both tasks have recorded, the same host among them, a flush that saw the Config
\* change has written, and a record call waits for the guard the flush holds.
C33_Witness ==
    /\ recorder.flush.pc = "return"
    /\ Cardinality(recorder.flush.seen) >= 2
    /\ Cardinality(recorder.done) >= 2
    /\ \E t \in Recorders : recorder.tasks[t].pc = "lock"

\* C40: a flush never discards what the output file held before the session: every
\* group and every host of the file the recorder was created on is in the file after
\* a flush has written it, also when that file did not parse as a Config.
C40_FlushKeepsOldFile ==
    recorder.written
        => \A i \in 1..Len(recorder.file0.groups) :
              \E j \in 1..Len(recorder.file.groups) :
                 /\ recorder.file.groups[j].name = recorder.file0.groups[i].name
                 /\ Range(recorder.file0.groups[i].hosts)
                        \subseteq Range(recorder.file.groups[j].hosts)

(***************************************************************************)
(* Claims about create_proxy_task (checked under TaskFairSpec).            *)
(***************************************************************************)
\* C34: create_proxy_task always returns: its wait for the socket is bounded, and when
\* the daemon task fails before the socket exists the launcher stops polling and
\* reports the failure. Every run ends with the launcher returned or failed.
C34_TaskAlwaysReturns == <>(waiter.st \in {"returned", "failed"})

(***************************************************************************)
(* Claims about the graph traversals (checked under TraverseSpec).         *)
(***************************************************************************)
\* C37: on every finite configuration, cyclic and unvalidated ones included,
\* expand_group, dfs_cycle_check and resolve_filesystem_config return, and each has
\* run its body at most once for each name: the calls of a traversal that returned
\* are pairwise distinct names of the graph, and its result is Ok or an error.
C37_TraversalsBounded ==
    /\ validation.step = "done"
          => /\ NoDuplicates(validation.calls)
             /\ Range(validation.calls) \subseteq RefNames
             /\ validation.result.res.ok \in BOOLEAN
    /\ resolved.name # "none"
          => /\ NoDuplicates(resolved.calls)
             /\ Range(resolved.calls) \subseteq RefNames
             /\ resolved.result.ok \in BOOLEAN
    /\ expand.done
          => /\ NoDuplicates(expand.calls)
             /\ Range(expand.calls) \subseteq RefNames
             /\ expand.result.res.ok \in BOOLEAN

\* All three traversals have returned on a graph with the cycle a -> b -> a, in which
\* c is reached along two ways: the cycle check and the resolver report the cycle,
\* the expansion succeeds having expanded each of the three groups.
C37_Witness ==
    /\ validation.step = "done" /\ resolved.name # "none" /\ expand.done
    /\ Get(network, "a").groups = <<"b", "c">>
    /\ Get(network, "b").groups = <<"c", "a">>
    /\ validation.root = "a" /\ resolved.name = "a" /\ expand.root = "a"
    /\ ~validation.result.res.ok
    /\ ~resolved.result.ok
    /\ expand.result.res.ok /\ Len(expand.calls) = 3

====
